---- MODULE Spec2Model ----
(***************************************************************************)
(* Model of the STM tip-etching controller firmware: the stepper driver,   *)
(* the current sensor's published reading, the moving-average filters, the *)
(* process machines HOME, MOD1, MOD2, the JOG mode and the supervisor     *)
(* (ModeController), driven by the Arduino loop().                         *)
(*                                                                         *)
(* Units.  Every float of the source is held as an integer or as a ratio   *)
(* of integers, so that no rounding is invented:                           *)
(*   currents      mA          (0.05 A = 50; the filters' SCALE is 1000)   *)
(*   lengths       micrometres (1.5 mm = 1500)                             *)
(*   speeds        micrometres per second (3.0 mm/s = 3000)                *)
(*   durations     ms; the pulse parameters, which the source holds in     *)
(*                 seconds, in thousandths of a second (0.5 s = 500)       *)
(*   step timing   microseconds                                            *)
(*                                                                         *)
(* Time.  The source stores time stamps (waitStart_ = now) and only ever   *)
(* reads them back as the unsigned difference now - stamp.  A stamp field  *)
(* is therefore held as that difference: 0 when the code assigns "now",    *)
(* growing by the time that passes (Elapse), and saturating at the largest *)
(* duration the code compares that stamp with.                             *)
(* tNextStep_ is held likewise as the time left until the step is due,     *)
(* 0 when it is due; the code's special value tNextStep_ = 0 ("start       *)
(* immediately") is the same 0.                                            *)
(*                                                                         *)
(* The timing specifications (SpecStepper, SpecSensor) follow the          *)
(* microsecond counter itself: there micros is the value micros() returns, *)
(* a wrapping counter, tNextStep_, nextSampleTime_ and windowStart_ hold   *)
(* counter values as in the source, and obs holds notes on the last call.  *)
(* The counter wraps at MicrosWrap, a power of two below the source's 2^32 *)
(* because the model checker's integers end at 2^31 - 1; a signed          *)
(* difference is non-negative when the unsigned one is below half of it.   *)
(***************************************************************************)
EXTENDS Integers, Sequences, FiniteSets, TLC

VARIABLES
    stepper,          \* StepperDriver fields
    sensor,           \* CurrentSensor: enabled_ and the published Irms_
    baselineCurrent,  \* global baseline, <<numerator, denominator>> in mA
    pins,             \* relay pins: direction and output latch
    Iavg, IavgS,      \* the two shared MovingAverage instances
    gParams,          \* tunable parameters
    keys,             \* KeypadShield fields
    ctrl,             \* ModeController: ui_, selected_, running_
    home, mod1, mod2, jog, param,   \* the modes' private fields
    obs,              \* what the last loop() did: calls made, step() result,
                      \* branch taken, levels the relay pins went through
    micros,           \* the microsecond counter (timing specifications only)
    twin              \* a second controller that reads the same inputs (the
                      \* specification that compares MOD1 with MOD2 only)

vars == <<stepper, sensor, baselineCurrent, pins, Iavg, IavgS, gParams, keys,
          ctrl, home, mod1, mod2, jog, param, obs, micros, twin>>

-----------------------------------------------------------------------------
(* Bounds of the model *)

\* steps per mm of the lead screw drive (the sketch builds 200*16/8 = 400)
StepsPerMm == 1
\* window lengths of the long and the short moving average (200 and 20)
NLong == 3
NShort == 2
\* one pass of loop() takes this long (ms): while HOME runs, while an
\* etching machine runs
HomeLoopMs == 1000
EtchLoopMs == 250
\* counters saturate so that a run that never ends has finitely many states
OnCap == 300
RecCap == 2
\* pulseStart_ saturates here (ms): the default OFF duration, were it in ms
PULSE_CAP == 2000
\* how far below the switch position HOME may seek before the switch closes
MaxSeekSteps == 2
\* readings summed by HOME's baseline measurement: one per pass of loop()
\* during HOME_MEASURE
HomeSamples == 5
\* how far above the lower soft limit a jogged start is, mm
JogDepth == 13
\* saturation of the count of runs started
RunCap == 3
\* pulse counts of the etching runs: 1..MaxPulses
MaxPulses == 2
\* the microsecond counter wraps at MicrosWrap (2^24 here)
MicrosWrap == 16777216
\* the timing specifications: the shortest time between two update() calls,
\* in us; the calls and the commands followed
TickUs == 50000
MaxUpdates == 5
MaxCmds == 2
MaxSensorCalls == 5
\* the filter specification: reset() and update() calls followed
MaxFilterCalls == 5
WindowLen == 4         \* sample intervals in a window of the window specification
MaxWindowCalls == 8    \* update() calls in the window specification
RmsTol == 2            \* mA allowed for rounding when two currents are compared

-----------------------------------------------------------------------------
(* Program constants *)

MAX_MM_S      == 10000   \* maximum speed, um/s
HOME_SPEED    == 5000    \* HOME seek and rise speed, um/s
HOME_TARGET   == 30000   \* baseline height, um
HOME_SETTLE   == 200     \* delay(200) after the switch closed, ms
HOME_MEASURE  == 5000    \* baseline measurement, ms
HOME_EXIT     == 2000    \* delay(2000) before HOME reports completion, ms
Z_MIN         == 1500    \* soft limits, um
Z_MAX         == 75000
I_THRESHOLD   == 50      \* surface threshold, mA
CONFIRM_I     == 500     \* validation threshold, mA
VALIDATE_MS   == 500
WAIT_MS       == 1000    \* Wait1..Wait4
HOLD_MS       == 2000    \* pre-etch hold
MOD1_SEARCH   == 1500    \* MOD1 search speed set by begin(), um/s
MOD_SEARCH    == 3000    \* MOD2 search speed and both recovery speeds, um/s
PLUNGE_SPEED  == 1000
LIFT_MM       == 30000   \* final lift, um
LIFT_SPEED    == 3000
JOG_SPEED     == 2000
\* CurrentSensor currentSensor(PIN_I_SENSOR, 5.0f, 1023.0f, 2.545f, 40000UL, 200UL)
VREF_V          == 5       \* V
ADC_MAX         == 1023
K_CAL           == 2545    \* mA per V
SAMPLE_WINDOW   == 40000   \* us
SAMPLE_INTERVAL == 200     \* us
DEBOUNCE_MS   == 80
FIX_MAX       == 32767   \* int16_t range of the filters' samples
FIX_MIN_NEG   == 32768
PULSE_WRAP    == 256     \* pulseCount_ is a uint8_t
LONG_PRESS_MS == 2000    \* long SELECT in the parameter editor
ThresholdHigh == 1000    \* an etching threshold of 1.000 A, mA
FLOAT_MAX     == 999999  \* the float editor's largest value, 999.999, in thousandths

-----------------------------------------------------------------------------
(* Arithmetic *)

Abs(x) == IF x < 0 THEN -x ELSE x
Min(a, b) == IF a < b THEN a ELSE b
Max(a, b) == IF a > b THEN a ELSE b

\* lroundf(n / d), d > 0: to nearest, halves away from zero
Lround(n, d) ==
    IF n >= 0 THEN (2 * n + d) \div (2 * d)
              ELSE -((2 * (-n) + d) \div (2 * d))

\* an age after ms more milliseconds, saturating at cap
Older(age, ms, cap) == Min(age + ms, cap)

-----------------------------------------------------------------------------
(* StepperDriver *)

\* positionMm() <= z and >= z for z in um: pos_steps_ / stepsPerMm_ against z
PosLeq(s, z) == s.pos_steps_ * 1000 <= z * StepsPerMm
PosGeq(s, z) == s.pos_steps_ * 1000 >= z * StepsPerMm

isBusy(s) == s.motion_ = "ToTarget"

enable(s, on) == [s EXCEPT !.en = on]

\* a speed command that leaves the motion kind alone when v = 0
setSpeedMmPerSec_keeps(s, v0) ==
    LET v == IF v0 > MAX_MM_S THEN MAX_MM_S
             ELSE IF v0 < -MAX_MM_S THEN -MAX_MM_S ELSE v0
        wasIdle == (s.motion_ = "Idle" \/ s.speed_mm_s_ = 0)
    IN  [s EXCEPT !.speed_mm_s_ = v,
                  !.motion_ = IF v = 0 THEN @ ELSE "Velocity",
                  !.dir_ = (v >= 0),
                  !.tNextStep_ = IF v # 0 /\ wasIdle THEN 0 ELSE @]

setSpeedMmPerSec(s, v0) ==
    LET v == IF v0 > MAX_MM_S THEN MAX_MM_S
             ELSE IF v0 < -MAX_MM_S THEN -MAX_MM_S ELSE v0
        wasIdle == (s.motion_ = "Idle" \/ s.speed_mm_s_ = 0)
    IN  [s EXCEPT !.speed_mm_s_ = v,
                  !.motion_ = IF v = 0 THEN "Idle" ELSE "Velocity",
                  !.dir_ = (v >= 0),
                  !.tNextStep_ = IF v # 0 /\ wasIdle THEN 0 ELSE @]

setPositionMm(s, um) == [s EXCEPT !.pos_steps_ = Lround(um * StepsPerMm, 1000)]

\* moveToMm(x, v) with x = xn / xd um
moveToMm(s, xn, xd, v0) ==
    LET tgt   == Lround(xn * StepsPerMm, xd * 1000)
        goPos == tgt > s.pos_steps_
        va    == Abs(v0)
        vb    == IF va <= 0 THEN MAX_MM_S \div 2 ELSE va
        v     == IF vb > MAX_MM_S THEN MAX_MM_S ELSE vb
    IN  [s EXCEPT !.target_steps_ = tgt,
                  !.dir_ = goPos,
                  !.speed_mm_s_ = IF goPos THEN v ELSE -v,
                  !.motion_ = "ToTarget",
                  !.tNextStep_ = 0]

\* moveRelativeMm(dx, v): moveToMm(positionMm() + dx, v)
moveRelativeMm(s, dx, v) ==
    moveToMm(s, s.pos_steps_ * 1000 + dx * StepsPerMm, StepsPerMm, v)

\* a pulse that moves the counter by two steps
stepOnce_twice(s) ==
    [s EXCEPT !.pos_steps_ = IF s.dir_ THEN @ + 2 ELSE @ - 2]

stepOnce_(s) ==
    [s EXCEPT !.pos_steps_ = IF s.dir_ THEN @ + 1 ELSE @ - 1]

StepperDriver_update(s) ==
    IF s.motion_ = "Idle" /\ s.speed_mm_s_ = 0
    THEN [s EXCEPT !.tNextStep_ = 0]
    ELSE LET v == Abs(s.speed_mm_s_)
         IN  IF v * StepsPerMm < 1000 THEN s       \* stepsPerSec < 1.0
             ELSE LET period_us == 1000000000 \div (v * StepsPerMm)
                  IN  IF s.tNextStep_ = 0
                      THEN LET s1 == stepOnce_([s EXCEPT !.tNextStep_ = period_us])
                               reached ==
                                   IF s1.dir_ THEN s1.pos_steps_ >= s1.target_steps_
                                              ELSE s1.pos_steps_ <= s1.target_steps_
                           IN  IF s1.motion_ = "ToTarget" /\ reached
                               THEN [s1 EXCEPT !.speed_mm_s_ = 0, !.motion_ = "Idle"]
                               ELSE s1
                      ELSE s

\* (int32_t)(a - b) >= 0 for two values of the microsecond counter
SignedGeq(a, b) == ((a - b + MicrosWrap) % MicrosWrap) < (MicrosWrap \div 2)

\* an arrival check that waits for the target to be passed
Arrive_past(s) ==
    IF s.motion_ = "ToTarget"
       /\ (IF s.dir_ THEN s.pos_steps_ > s.target_steps_
                     ELSE s.pos_steps_ < s.target_steps_)
    THEN [s EXCEPT !.speed_mm_s_ = 0, !.motion_ = "Idle"]
    ELSE s

\* the arrival check update() makes after a pulse
Arrive(s) ==
    IF s.motion_ = "ToTarget"
       /\ (IF s.dir_ THEN s.pos_steps_ >= s.target_steps_
                     ELSE s.pos_steps_ <= s.target_steps_)
    THEN [s EXCEPT !.speed_mm_s_ = 0, !.motion_ = "Idle"]
    ELSE s

\* update() when micros() returns now, tNextStep_ a counter value
StepperDriver_updateAt(s, now) ==
    IF s.motion_ = "Idle" /\ s.speed_mm_s_ = 0
    THEN [s EXCEPT !.tNextStep_ = now]
    ELSE LET v == Abs(s.speed_mm_s_)
         IN  IF v * StepsPerMm < 1000 THEN s       \* stepsPerSec < 1.0
             ELSE LET period_us == 1000000000 \div (v * StepsPerMm)
                      t0 == IF s.tNextStep_ = 0 THEN now ELSE s.tNextStep_
                  IN  IF SignedGeq(now, t0)
                      THEN Arrive(stepOnce_(
                               [s EXCEPT !.tNextStep_ = (now + period_us) % MicrosWrap]))
                      ELSE [s EXCEPT !.tNextStep_ = t0]

StepperInit ==
    [pos_steps_ |-> 0, speed_mm_s_ |-> 0, dir_ |-> TRUE, tNextStep_ |-> 0,
     motion_ |-> "Idle", target_steps_ |-> 0, en |-> FALSE]

-----------------------------------------------------------------------------
(* CurrentSensor, as far as the process machines see it *)

setEnabled(c, en) == [c EXCEPT !.enabled_ = en]

\* update(): nothing while disabled; while enabled the reading published
\* at the close of a window is decided by the ADC samples of that window,
\* which are inputs: irms is the value in force after the call.
CurrentSensor_update(c, irms) ==
    IF ~c.enabled_ THEN c ELSE [c EXCEPT !.Irms_ = irms]

lastIrms(c) == c.Irms_

\* The sensor in full, for the timing specification: the sums are kept in
\* ADC counts (sumV_ the sum of the readings, sumV2_ of their squares), Vpp_
\* in mV, Irms_ in mA, nextSampleTime_ and windowStart_ as counter values.

\* sqrtf on whole numbers: the floor of the square root, by bisection
RECURSIVE IsqrtIn(_, _, _)
IsqrtIn(n, lo, hi) ==
    IF lo >= hi THEN lo
    ELSE LET mid == (lo + hi + 1) \div 2
         IN  IF mid * mid <= n THEN IsqrtIn(n, mid, hi) ELSE IsqrtIn(n, lo, mid - 1)

Isqrt(n) == IsqrtIn(n, 0, Min(n, 46340))

\* the constructor and the member initialisers
CurrentSensor_new(window, interval) ==
    [enabled_ |-> FALSE, Irms_ |-> 0, Vpp_ |-> 0,
     adcMin_ |-> ADC_MAX, adcMax_ |-> 0, sumV_ |-> 0, sumV2_ |-> 0,
     nSamples_ |-> 0, nextSampleTime_ |-> 0, windowStart_ |-> 0,
     sampleWindow_us_ |-> window, sampleInterval_us_ |-> interval]

\* begin() when micros() returns now
CurrentSensor_begin(c, now) ==
    [c EXCEPT !.windowStart_ = now, !.nextSampleTime_ = now,
              !.adcMin_ = ADC_MAX, !.adcMax_ = 0,
              !.sumV_ = 0, !.sumV2_ = 0, !.nSamples_ = 0]

\* update(), first half: one reading adc when the sample is due
TakeSample(c, now, adc) ==
    IF SignedGeq(now, c.nextSampleTime_)
    THEN [c EXCEPT !.nextSampleTime_ = (@ + c.sampleInterval_us_) % MicrosWrap,
                   !.adcMin_ = Min(@, adc), !.adcMax_ = Max(@, adc),
                   !.sumV_ = @ + adc, !.sumV2_ = @ + adc * adc,
                   !.nSamples_ = @ + 1]
    ELSE c

\* k_cal * sqrt(<v^2> - <v>^2), mA
WindowIrms(c) ==
    LET n   == c.nSamples_
        d   == n * c.sumV2_ - c.sumV_ * c.sumV_
        var == IF d < 0 THEN 0 ELSE d
    IN  (K_CAL * VREF_V * Isqrt(var)) \div (ADC_MAX * n)

\* a window close that publishes 0 when the window holds no sample
CloseWindow_zeroes(c, now) ==
    LET d == (now - c.windowStart_ + MicrosWrap) % MicrosWrap
    IN  IF d < MicrosWrap \div 2 /\ d >= c.sampleWindow_us_
        THEN [c EXCEPT !.windowStart_ = (@ + c.sampleWindow_us_) % MicrosWrap,
                       !.Vpp_ = (Max(0, c.adcMax_ - c.adcMin_) * VREF_V * 1000)
                                    \div ADC_MAX,
                       !.Irms_ = IF c.nSamples_ > 0 THEN WindowIrms(c) ELSE 0,
                       !.adcMin_ = ADC_MAX, !.adcMax_ = 0,
                       !.sumV_ = 0, !.sumV2_ = 0, !.nSamples_ = 0]
        ELSE c

\* update(), second half: the close of the window,
\* (int32_t)(now - windowStart_) >= (int32_t)sampleWindow_us_
CloseWindow(c, now) ==
    LET d == (now - c.windowStart_ + MicrosWrap) % MicrosWrap
    IN  IF d < MicrosWrap \div 2 /\ d >= c.sampleWindow_us_
        THEN [c EXCEPT !.windowStart_ = (@ + c.sampleWindow_us_) % MicrosWrap,
                       !.Vpp_ = (Max(0, c.adcMax_ - c.adcMin_) * VREF_V * 1000)
                                    \div ADC_MAX,
                       !.Irms_ = IF c.nSamples_ > 0 THEN WindowIrms(c) ELSE @,
                       !.adcMin_ = ADC_MAX, !.adcMax_ = 0,
                       !.sumV_ = 0, !.sumV2_ = 0, !.nSamples_ = 0]
        ELSE c

\* update() regardless of enabled_
CurrentSensor_updateAt_always(c, now, adc) ==
    CloseWindow(TakeSample(c, now, adc), now)

\* update() when micros() returns now and analogRead() would return adc
CurrentSensor_updateAt(c, now, adc) ==
    IF ~c.enabled_ THEN c ELSE CloseWindow(TakeSample(c, now, adc), now)

\* the difference Irms_ - baselineCurrent as it comes
correctedIrms_raw(c, base) == <<c.Irms_ * base[2] - base[1], base[2]>>

\* correctedIrms(): max(0, Irms_ - baselineCurrent), as <<n, d>> mA
correctedIrms(c, base) ==
    LET n == c.Irms_ * base[2] - base[1]
    IN  IF n < 0 THEN <<0, 1>> ELSE <<n, base[2]>>

-----------------------------------------------------------------------------
(* MovingAverage<N, 1000> *)

\* toFixed_: xA * SCALE clamped to int16_t, rounded; x = <<n, d>> mA
toFixed_open(x) == Lround(x[1], x[2])

toFixed_(x) ==
    LET r == Lround(x[1], x[2])
    IN  IF x[1] > FIX_MAX * x[2] THEN FIX_MAX
        ELSE IF x[1] < -FIX_MIN_NEG * x[2] THEN -FIX_MIN_NEG ELSE r

\* reset(x0A) with the default x0A = 0
MovingAverage_reset(N) ==
    [buf_ |-> [i \in 0..(N - 1) |-> 0], idx_ |-> 0, filled_ |-> FALSE, sum_ |-> 0]

\* reset(x0A): the whole window holds the fixed-point x0, and counts as
\* filled when that is not 0
MovingAverage_resetTo(N, x) ==
    LET x0 == toFixed_(x)
    IN  [buf_ |-> [i \in 0..(N - 1) |-> x0], idx_ |-> 0, filled_ |-> (x0 # 0),
         sum_ |-> N * x0]

filled(m) == m.filled_

\* an update that does not take the evicted sample out of the sum
MovingAverage_update_keeps(m, N, x) ==
    LET xmA == toFixed_(x)
        i1  == m.idx_ + 1
    IN  [buf_    |-> [m.buf_ EXCEPT ![m.idx_] = xmA],
         sum_    |-> m.sum_ + xmA,
         idx_    |-> IF i1 >= N THEN 0 ELSE i1,
         filled_ |-> (m.filled_ \/ i1 >= N)]

\* update(xA): the new filter state
MovingAverage_update(m, N, x) ==
    LET xmA == toFixed_(x)
        i1  == m.idx_ + 1
    IN  [buf_    |-> [m.buf_ EXCEPT ![m.idx_] = xmA],
         sum_    |-> m.sum_ - m.buf_[m.idx_] + xmA,
         idx_    |-> IF i1 >= N THEN 0 ELSE i1,
         filled_ |-> (m.filled_ \/ i1 >= N)]

\* the value update(xA) returns, read off the new state: (sum_/denom)/SCALE
\* as <<n, d>> mA
MovingAverage_value(m, N) ==
    LET d0 == IF m.filled_ THEN N ELSE m.idx_
    IN  <<m.sum_, IF d0 <= 0 THEN 1 ELSE d0>>

\* I >= t and I < t, I <= t for a ratio I and an integer t (mA)
QGeq(q, t) == q[1] >= t * q[2]
QLeq(q, t) == q[1] <= t * q[2]
QLt(q, t)  == q[1] <  t * q[2]

-----------------------------------------------------------------------------
(* Relay pins.  out: the pin is an OUTPUT; lvl: its output latch.  A pin    *)
(* made an OUTPUT drives its latch, which holds LOW from reset until the    *)
(* first digitalWrite.                                                      *)

PinsInit == [out |-> <<FALSE, FALSE>>, lvl |-> <<"LOW", "LOW">>]

\* the levels the two pins drive ("Z": not an output)
Driven(p) == <<IF p.out[1] THEN p.lvl[1] ELSE "Z",
               IF p.out[2] THEN p.lvl[2] ELSE "Z">>

-----------------------------------------------------------------------------
(* Notes kept beside the program's state, for stating the properties: hist  *)
(* (a field of the mode records, cleared by begin()) holds what has         *)
(* happened in the run, obs what happened in the last loop().               *)

HistInit ==
    [order |-> <<>>,      \* milestones since the search last (re)started
     lifts |-> 0,         \* final lifts commanded
     ons   |-> 0,         \* times the 9 V output was switched on for a pulse
     offs  |-> 0,         \* times a pulse was switched off
     recoveries |-> 0,    \* false-surface recoveries (saturating)
     holdMs |-> 0]        \* time spent in RelayHold since validation, ms


\* HOME: what was true when the switch closed and on arrival, how long the
\* measurement lasted, and the readings lastIrms() gave during it
HomeHistInit ==
    [order |-> <<>>, zeroed |-> FALSE, arrived |-> FALSE, measMs |-> 0,
     acc |-> <<0, 0>>,
     writes |-> 0]        \* assignments to baselineCurrent in this run

Milestone(h, m) == [h EXCEPT !.order = Append(@, m)]

-----------------------------------------------------------------------------
(* The world: one record of all the program's state, so that a handler is   *)
(* a function from world to world and a call sequence is a composition.     *)
(* Where a world is handed from one call to the next it is written          *)
(* CHOOSE r \in {F(x) : x \in {e}} : TRUE, which is F(e) with e computed once. *)

World ==
    [stepper |-> stepper, sensor |-> sensor, baselineCurrent |-> baselineCurrent,
     pins |-> pins, Iavg |-> Iavg, IavgS |-> IavgS, gParams |-> gParams,
     keys |-> keys, ctrl |-> ctrl, home |-> home, mod1 |-> mod1, mod2 |-> mod2,
     jog |-> jog, param |-> param, obs |-> obs]

Assign(w) ==
    /\ stepper' = w.stepper
    /\ sensor' = w.sensor
    /\ baselineCurrent' = w.baselineCurrent
    /\ pins' = w.pins
    /\ Iavg' = w.Iavg
    /\ IavgS' = w.IavgS
    /\ gParams' = w.gParams
    /\ keys' = w.keys
    /\ ctrl' = w.ctrl
    /\ home' = w.home
    /\ mod1' = w.mod1
    /\ mod2' = w.mod2
    /\ jog' = w.jog
    /\ param' = w.param
    /\ obs' = w.obs
    /\ micros' = micros

\* no second controller
NoTwin == <<>>

Commit(w) == Assign(w) /\ twin' = twin

\* ms milliseconds pass: every stamp is that much older, the next step that
\* much nearer
Elapse(w, ms) ==
    [w EXCEPT !.stepper.tNextStep_ = Max(0, @ - ms * 1000),
              !.keys.lastChange_ = Older(@, ms, DEBOUNCE_MS),
              !.home.baselineStart_ = Older(@, ms, HOME_MEASURE),
              !.mod1.waitStart_ = Older(@, ms, WAIT_MS),
              !.mod1.validateStart_ = Older(@, ms, VALIDATE_MS),
              !.mod1.etchStart_ = Older(@, ms, HOLD_MS),
              !.mod2.waitStart_ = Older(@, ms, WAIT_MS),
              !.mod2.validateStart_ = Older(@, ms, VALIDATE_MS),
              !.mod2.etchStart_ = Older(@, ms, HOLD_MS),
              !.mod2.pulseStart_ = Older(@, ms, PULSE_CAP),
              !.param.selDownMs_ = Older(@, ms, LONG_PRESS_MS),
              !.mod1.hist.holdMs = IF w.mod1.st_ = "RelayHold"
                                   THEN Older(@, ms, HOLD_MS) ELSE @,
              !.mod2.hist.holdMs = IF w.mod2.st_ = "RelayHold"
                                   THEN Older(@, ms, HOLD_MS) ELSE @,
              !.home.hist.measMs = IF w.home.baselineMeasuring_ /\ w.sensor.enabled_
                                   THEN Older(@, ms, HOME_MEASURE) ELSE @,
              !.obs.elapsed = @ + ms]

\* delay(ms): the call returns ms later; obs.slept notes the time a step()
\* spent in delay()
delay(w, ms) == [Elapse(w, ms) EXCEPT !.obs.slept = @ + ms]

\* pinMode(relayPin, OUTPUT) and digitalWrite(relayPin, level); the levels
\* driven after each are noted in obs.seen
pinModeOutput(w, i) ==
    LET p == [w.pins EXCEPT !.out[i] = TRUE]
    IN  [w EXCEPT !.pins = p, !.obs.seen = @ \cup {Driven(p)}]

digitalWrite(w, i, level) ==
    LET p == [w.pins EXCEPT !.lvl[i] = level]
    IN  [w EXCEPT !.pins = p, !.obs.seen = @ \cup {Driven(p)}]

\* the two writes with the levels exchanged
WriteRelays_swapped(w, l1, l2) == digitalWrite(digitalWrite(w, 1, l2), 2, l1)

\* the two writes of one relay mutation, pin 1 first as everywhere in Modes.cpp
WriteRelays(w, l1, l2) == digitalWrite(digitalWrite(w, 1, l1), 2, l2)

\* a step() call ends: its result and the branch that ran
Ret(w, result, branch) ==
    [w EXCEPT !.obs.ret = result, !.obs.br = branch,
              !.obs.after = [speed   |-> w.stepper.speed_mm_s_,
                             motion  |-> w.stepper.motion_,
                             target  |-> w.stepper.target_steps_,
                             sensing |-> w.sensor.enabled_,
                             relays  |-> Driven(w.pins),
                             st      |-> IF w.ctrl.running_ = 1 THEN w.mod1.st_
                                         ELSE IF w.ctrl.running_ = 2 THEN w.mod2.st_
                                         ELSE "none"]]

-----------------------------------------------------------------------------
(* HomeMode *)

\* a begin() that also clears the baseline
HomeMode_begin_rebase(w) ==
    [w EXCEPT !.stepper = setSpeedMmPerSec(enable(@, TRUE), -HOME_SPEED),
              !.home.homed_ = FALSE,
              !.home.baselineMeasuring_ = FALSE,
              !.home.baselineDone_ = FALSE,
              !.home.baselineSum_ = 0,
              !.home.baselineCount_ = 0,
              !.home.hist = HomeHistInit,
              !.baselineCurrent = <<0, 1>>]

HomeMode_begin(w) ==
    [w EXCEPT !.stepper = setSpeedMmPerSec(enable(@, TRUE), -HOME_SPEED),
              !.home.homed_ = FALSE,
              !.home.baselineMeasuring_ = FALSE,
              !.home.baselineDone_ = FALSE,
              !.home.baselineSum_ = 0,
              !.home.baselineCount_ = 0,
              !.home.hist = HomeHistInit]

\* a measurement that reaches any length is taken to be complete
MeasureElapsed_any(age) == age >= 0

\* now - baselineStart_ >= 5000UL
MeasureElapsed(age) == age >= HOME_MEASURE

\* limit: the level read from the limit pin
HomeMode_step(w, limit) ==
    IF ~w.home.homed_
    THEN \* phase 1
         LET w1 == [w EXCEPT !.stepper = StepperDriver_update(@)]
         IN  IF limit = "LOW"
             THEN LET w2 == [w1 EXCEPT
                                !.stepper = setPositionMm(setSpeedMmPerSec(@, 0), 0),
                                !.home.homed_ = TRUE,
                                !.home.hist = Milestone(@, "limit")]
                      w3 == delay(w2, HOME_SETTLE)           \* delay(200)
                  IN  Ret([w3 EXCEPT !.stepper = setSpeedMmPerSec(@, HOME_SPEED),
                                     !.home.target_ = HOME_TARGET,
                                     !.home.hist.zeroed =
                                         (w2.stepper.pos_steps_ = 0
                                          /\ w2.stepper.speed_mm_s_ = 0
                                          /\ w2.stepper.motion_ = "Idle")],
                          FALSE, "HomeLimit")
             ELSE Ret(w1, FALSE, "HomeSeek")
    ELSE LET w1 == [w EXCEPT !.stepper = StepperDriver_update(@)]
         IN  IF ~w1.home.baselineMeasuring_ /\ ~w1.home.baselineDone_
             THEN \* phase 2
                  IF PosGeq(w1.stepper, w1.home.target_)
                  THEN Ret([w1 EXCEPT !.stepper = setSpeedMmPerSec(@, 0),
                                      !.sensor = setEnabled(@, TRUE),
                                      !.home.baselineMeasuring_ = TRUE,
                                      !.home.baselineStart_ = 0,
                                      !.home.baselineSum_ = 0,
                                      !.home.baselineCount_ = 0,
                                      !.home.hist = Milestone(@, "arrived"),
                                      !.home.hist.arrived =
                                          PosGeq(w1.stepper, HOME_TARGET)],
                           FALSE, "HomeArrived")
                  ELSE Ret(w1, FALSE, "HomeRise")
             ELSE IF w1.home.baselineMeasuring_
             THEN \* phase 3
                  LET w2 == [w1 EXCEPT
                                !.home.baselineSum_ = @ + lastIrms(w1.sensor),
                                !.home.baselineCount_ = @ + 1,
                                !.home.hist.acc = <<@[1] + w1.sensor.Irms_, @[2] + 1>>]
                  IN  IF MeasureElapsed(w2.home.baselineStart_)
                      THEN Ret([w2 EXCEPT
                                   !.sensor = setEnabled(@, FALSE),
                                   !.home.baselineMeasuring_ = FALSE,
                                   !.home.baselineDone_ = TRUE,
                                   !.home.hist = Milestone(@, "baseline"),
                                   !.home.hist.writes = @ + 1,
                                   !.baselineCurrent =
                                       IF w2.home.baselineCount_ > 0
                                       THEN <<w2.home.baselineSum_,
                                              w2.home.baselineCount_>>
                                       ELSE <<0, 1>>],
                               FALSE, "HomeBaseline")
                      ELSE Ret(w2, FALSE, "HomeMeasure")
             ELSE \* phase 4: baselineDone_
                  Ret(delay(w1, HOME_EXIT), TRUE, "HomeDone")    \* delay(2000)

HomeMode_end(w) == [w EXCEPT !.stepper = enable(@, TRUE)]

HomeInit ==
    [homed_ |-> FALSE, target_ |-> 0, baselineMeasuring_ |-> FALSE,
     baselineDone_ |-> FALSE, baselineStart_ |-> 0, baselineSum_ |-> 0,
     baselineCount_ |-> 0, hist |-> HomeHistInit]

-----------------------------------------------------------------------------
(* Mod1Mode *)

Mod1Mode_begin(w) ==
    LET w1 == WriteRelays(pinModeOutput(pinModeOutput(w, 1), 2), "LOW", "HIGH")
    IN  [w1 EXCEPT !.mod1.st_ = "MovingDownDetect",
                   !.mod1.relayOn_ = FALSE,
                   !.mod1.pulseCount_ = 0,
                   !.mod1.etchStart_ = HOLD_MS,       \* etchStart_ = 0
                   !.mod1.bumpedUp1mm_ = FALSE,
                   !.mod1.hist = HistInit,
                   !.Iavg = MovingAverage_reset(NLong),
                   !.IavgS = MovingAverage_reset(NShort),
                   !.stepper = setSpeedMmPerSec(enable(@, TRUE), MOD1_SEARCH),
                   !.sensor = setEnabled(@, TRUE)]

\* a recovery that resumes at the search speed begin() uses in MOD1
Recover_slow(w) ==
    [WriteRelays(w, "HIGH", "HIGH") EXCEPT !.stepper = setSpeedMmPerSec(@, MOD1_SEARCH)]

\* false surface: both relays off, downward search at 3 mm/s again
Recover(w) ==
    [WriteRelays(w, "HIGH", "HIGH") EXCEPT !.stepper = setSpeedMmPerSec(@, MOD_SEARCH)]

\* a lift commanded downward
LiftCommand_down(s) == moveRelativeMm(s, LIFT_MM, LIFT_SPEED)

\* the final lift: moveRelativeMm(-30.0f, 3.0f)
LiftCommand(s) == moveRelativeMm(s, -LIFT_MM, LIFT_SPEED)

\* a soft-limit branch that leaves the sensor sampling
SoftLimit_sensing(w) ==
    WriteRelays([w EXCEPT !.stepper = setSpeedMmPerSec(@, 0)], "HIGH", "HIGH")

\* the soft-limit branch of both etching machines
SoftLimit(w) ==
    WriteRelays([w EXCEPT !.stepper = setSpeedMmPerSec(@, 0),
                          !.sensor = setEnabled(@, FALSE)],
                "HIGH", "HIGH")

\* a range check that lets the position pass the limit
OutOfRange_beyond(s) ==
    s.pos_steps_ * 1000 < Z_MIN * StepsPerMm \/ s.pos_steps_ * 1000 > Z_MAX * StepsPerMm

OutOfRange(s) == PosLeq(s, Z_MIN) \/ PosGeq(s, Z_MAX)

\* stepper_.update(), the first statement of every step()
Updated(w) == [w EXCEPT !.stepper = StepperDriver_update(@)]

\* step() after stepper_.update(): w1 is the world the update left
Mod1Machine(w1) ==
    LET st   == w1.mod1.st_
        Iraw == correctedIrms(w1.sensor, w1.baselineCurrent)
        \* IavgS_.update(Iraw) and Iavg_.update(Iraw), where a branch calls them
        wS   == [w1 EXCEPT !.IavgS = MovingAverage_update(@, NShort, Iraw)]
        IS   == MovingAverage_value(wS.IavgS, NShort)
        wL   == [w1 EXCEPT !.Iavg = MovingAverage_update(@, NLong, Iraw)]
        IL   == MovingAverage_value(wL.Iavg, NLong)
    IN
    IF OutOfRange(w1.stepper)
    THEN Ret([SoftLimit(w1) EXCEPT !.mod1.st_ = "Done"], TRUE, "Abort")
    ELSE IF st = "MovingDownDetect"
    THEN IF QGeq(IS, I_THRESHOLD)
         THEN Ret([WriteRelays([wS EXCEPT !.stepper = setSpeedMmPerSec(@, 0)],
                               "HIGH", "HIGH")
                      EXCEPT !.mod1.waitStart_ = 0,
                             !.mod1.st_ = "Wait1",
                             !.mod1.hist = Milestone(@, "detect")],
                  FALSE, "Detect")
         ELSE Ret(wS, FALSE, "Search")
    ELSE IF st = "Wait1"
    THEN IF w1.mod1.waitStart_ >= WAIT_MS
         THEN Ret([w1 EXCEPT !.stepper =
                                 moveRelativeMm(@, w1.gParams.mod1.plungeAfterSurface_mm,
                                                PLUNGE_SPEED),
                             !.mod1.st_ = "MoveDown1",
                             !.mod1.hist = Milestone(@, "plunge")],
                  FALSE, "Plunge")
         ELSE Ret(w1, FALSE, "Wait1")
    ELSE IF st = "MoveDown1"
    THEN IF ~isBusy(w1.stepper)
         THEN Ret([w1 EXCEPT !.mod1.waitStart_ = 0, !.mod1.st_ = "Wait2"],
                  FALSE, "PlungeDone")
         ELSE Ret(w1, FALSE, "MoveDown1")
    ELSE IF st = "Wait2"
    THEN IF w1.mod1.waitStart_ >= WAIT_MS
         THEN Ret([WriteRelays(w1, "HIGH", "LOW")
                      EXCEPT !.mod1.validateStart_ = 0,
                             !.Iavg = MovingAverage_reset(NLong),
                             !.IavgS = MovingAverage_reset(NShort),
                             !.mod1.st_ = "Validate30V"],
                  FALSE, "StartValidate")
         ELSE Ret(w1, FALSE, "Wait2")
    ELSE IF st = "Validate30V"
    THEN IF QGeq(IS, CONFIRM_I)
         THEN Ret([wS EXCEPT !.mod1.etchStart_ = 0,
                             !.mod1.st_ = "RelayHold",
                             !.mod1.hist = Milestone([@ EXCEPT !.holdMs = 0], "valid")],
                  FALSE, "Confirmed")
         ELSE IF wS.mod1.validateStart_ >= VALIDATE_MS
         THEN Ret([Recover(wS)
                      EXCEPT !.mod1.st_ = "MovingDownDetect",
                             !.mod1.hist.order = <<>>,
                             !.mod1.hist.recoveries = Min(@ + 1, RecCap)],
                  FALSE, "FalseSurface")
         ELSE Ret(wS, FALSE, "Validate")
    ELSE IF st = "RelayHold"
    THEN IF wL.mod1.etchStart_ < HOLD_MS
         THEN Ret(wL, FALSE, "Hold")
         ELSE Ret([wL EXCEPT !.stepper =
                                 setSpeedMmPerSec(@, -w1.gParams.mod1.retractSpeed_mm_s),
                             !.mod1.st_ = "Etching",
                             !.mod1.hist = Milestone(@, "hold")],
                  FALSE, "StartEtch")
    ELSE IF st = "Etching"
    THEN IF QLt(IL, w1.gParams.mod1.etchingThreshold_A)
         THEN Ret([WriteRelays([wL EXCEPT !.stepper = setSpeedMmPerSec(@, 0)],
                               "HIGH", "HIGH")
                      EXCEPT !.stepper = LiftCommand(@),
                             !.mod1.st_ = "FinalLift",
                             !.mod1.hist.lifts = @ + 1],
                  FALSE, "EtchEnd")
         ELSE Ret(wL, FALSE, "Etching")
    ELSE IF st = "FinalLift"
    THEN IF ~isBusy(w1.stepper)
         THEN Ret([w1 EXCEPT !.sensor = setEnabled(@, FALSE),
                             !.mod1.st_ = "Done"],
                  TRUE, "LiftDone")
         ELSE Ret(w1, FALSE, "FinalLift")
    ELSE Ret(w1, st = "Done", "Fallback")

Mod1Mode_step(w) == CHOOSE r \in {Mod1Machine(w1) : w1 \in {Updated(w)}} : TRUE

Mod1Mode_end(w) ==
    WriteRelays([w EXCEPT !.stepper = enable(setSpeedMmPerSec(@, 0), TRUE),
                          !.sensor = setEnabled(@, FALSE)],
                "HIGH", "HIGH")

Mod1Init ==
    [st_ |-> "MovingDownDetect", relayOn_ |-> FALSE, pulseCount_ |-> 0,
     etchStart_ |-> 0, waitStart_ |-> 0, validateStart_ |-> 0,
     bumpedUp1mm_ |-> FALSE, hist |-> HistInit]

-----------------------------------------------------------------------------
(* Mod2Mode *)

Mod2Mode_begin(w) ==
    LET w1 == WriteRelays(pinModeOutput(pinModeOutput(w, 1), 2), "HIGH", "HIGH")
    IN  [w1 EXCEPT !.mod2.st_ = "MovingDownDetect",
                   !.mod2.relayOn_ = FALSE,
                   !.mod2.pulseCount_ = 0,
                   !.mod2.etchStart_ = HOLD_MS,       \* etchStart_ = 0
                   !.mod2.hist = HistInit,
                   !.stepper = setSpeedMmPerSec(enable(@, TRUE), MOD_SEARCH),
                   !.sensor = setEnabled(@, TRUE)]

\* the guard of RelayHold as written, I <= I <= threshold: C++ evaluates
\* (I <= I) first, to a bool, and compares that 0 or 1 (ampere) with the
\* threshold
HoldGuard(I, threshold_mA) ==
    LET inner == IF I[1] * I[2] <= I[1] * I[2] THEN 1 ELSE 0
    IN  inner * 1000 <= threshold_mA

\* the phase that ends at a switch of the pulse train: its kind and how long
\* it lasted
PhaseEnd(w, kind) ==
    [w EXCEPT !.obs.phase = kind, !.obs.phaseMs = w.mod2.pulseStart_]

\* a start of the pulse train that leaves the sensor sampling
StartPulses_sensing(w) ==
    [w EXCEPT !.mod2.pulseStart_ = 0, !.mod2.relayOn_ = TRUE, !.mod2.pulseCount_ = 0]

\* the end of Wait4: sensing off, the pulse train's fields set
StartPulses(w) ==
    [w EXCEPT !.sensor = setEnabled(@, FALSE),
              !.mod2.pulseStart_ = 0, !.mod2.relayOn_ = TRUE, !.mod2.pulseCount_ = 0]

\* step() after stepper_.update(): w1 is the world the update left
Mod2Machine(w1) ==
    LET st   == w1.mod2.st_
        Iraw == correctedIrms(w1.sensor, w1.baselineCurrent)
        wS   == [w1 EXCEPT !.IavgS = MovingAverage_update(@, NShort, Iraw)]
        IS   == MovingAverage_value(wS.IavgS, NShort)
        wL   == [w1 EXCEPT !.Iavg = MovingAverage_update(@, NLong, Iraw),
                           !.obs.I = MovingAverage_value(
                                         MovingAverage_update(w1.Iavg, NLong, Iraw),
                                         NLong)]
        IL   == MovingAverage_value(wL.Iavg, NLong)
        p    == w1.gParams.mod2
    IN
    IF OutOfRange(w1.stepper)
    THEN Ret([SoftLimit(w1) EXCEPT !.mod2.st_ = "Done"], TRUE, "Abort")
    ELSE IF st = "MovingDownDetect"
    THEN IF QGeq(Iraw, I_THRESHOLD)
         THEN Ret([WriteRelays([w1 EXCEPT !.stepper = setSpeedMmPerSec(@, 0)],
                               "HIGH", "HIGH")
                      EXCEPT !.mod2.waitStart_ = 0,
                             !.mod2.st_ = "Wait1",
                             !.mod2.hist = Milestone(@, "detect")],
                  FALSE, "Detect")
         ELSE Ret(w1, FALSE, "Search")
    ELSE IF st = "Wait1"
    THEN IF w1.mod2.waitStart_ >= WAIT_MS
         THEN Ret([w1 EXCEPT !.stepper =
                                 moveRelativeMm(@, p.plungeAfterSurface_mm, PLUNGE_SPEED),
                             !.mod2.st_ = "MoveDown1",
                             !.mod2.hist = Milestone(@, "plunge")],
                  FALSE, "Plunge")
         ELSE Ret(w1, FALSE, "Wait1")
    ELSE IF st = "MoveDown1"
    THEN IF ~isBusy(w1.stepper)
         THEN Ret([w1 EXCEPT !.mod2.waitStart_ = 0, !.mod2.st_ = "Wait2"],
                  FALSE, "PlungeDone")
         ELSE Ret(w1, FALSE, "MoveDown1")
    ELSE IF st = "Wait2"
    THEN IF w1.mod2.waitStart_ >= WAIT_MS
         THEN Ret([WriteRelays(w1, "HIGH", "LOW")
                      EXCEPT !.mod2.validateStart_ = 0,
                             !.Iavg = MovingAverage_reset(NLong),
                             !.IavgS = MovingAverage_reset(NShort),
                             !.mod2.st_ = "Validate30V"],
                  FALSE, "StartValidate")
         ELSE Ret(w1, FALSE, "Wait2")
    ELSE IF st = "Validate30V"
    THEN IF QGeq(IS, CONFIRM_I)
         THEN Ret([wS EXCEPT !.mod2.etchStart_ = 0,
                             !.mod2.st_ = "RelayHold",
                             !.mod2.hist = Milestone([@ EXCEPT !.holdMs = 0], "valid")],
                  FALSE, "Confirmed")
         ELSE IF wS.mod2.validateStart_ >= VALIDATE_MS
         THEN Ret([Recover(wS)
                      EXCEPT !.mod2.st_ = "MovingDownDetect",
                             !.mod2.hist.order = <<>>,
                             !.mod2.hist.recoveries = Min(@ + 1, RecCap)],
                  FALSE, "FalseSurface")
         ELSE Ret(wS, FALSE, "Validate")
    ELSE IF st = "RelayHold"
    THEN IF wL.mod2.etchStart_ < HOLD_MS
         THEN Ret(wL, FALSE, "Hold")
         ELSE IF HoldGuard(IL, p.etchingThreshold_A)
         THEN Ret([WriteRelays(wL, "HIGH", "HIGH")
                      EXCEPT !.mod2.waitStart_ = 0,
                             !.mod2.st_ = "Wait3",
                             !.mod2.hist = Milestone(@, "hold")],
                  FALSE, "HoldEnd")
         ELSE Ret(wL, FALSE, "HoldOn")
    ELSE IF st = "Wait3"
    THEN IF w1.mod2.waitStart_ >= WAIT_MS
         THEN Ret([w1 EXCEPT !.stepper =
                                 moveRelativeMm(@, p.plungeAfterEtch_mm, PLUNGE_SPEED),
                             !.mod2.st_ = "MoveDown2"],
                  FALSE, "Plunge2")
         ELSE Ret(w1, FALSE, "Wait3")
    ELSE IF st = "MoveDown2"
    THEN IF ~isBusy(w1.stepper)
         THEN Ret([w1 EXCEPT !.mod2.waitStart_ = 0, !.mod2.st_ = "Wait4"],
                  FALSE, "Plunge2Done")
         ELSE Ret(w1, FALSE, "MoveDown2")
    ELSE IF st = "Wait4"
    THEN IF w1.mod2.waitStart_ >= WAIT_MS
         THEN Ret([WriteRelays(StartPulses(w1), "LOW", "HIGH")
                      EXCEPT !.mod2.st_ = "RelayPulse",
                             !.mod2.hist.ons = Min(@ + 1, OnCap)],
                  FALSE, "StartPulses")
         ELSE Ret(w1, FALSE, "Wait4")
    ELSE IF st = "RelayPulse"
    THEN IF w1.mod2.relayOn_
         THEN \* now - pulseStart_ (ms) >= pulseOn_s (the number of seconds)
              IF w1.mod2.pulseStart_ * 1000 >= p.pulseOn_s
              THEN Ret([WriteRelays(PhaseEnd(w1, "ON"), "HIGH", "HIGH")
                           EXCEPT !.mod2.relayOn_ = FALSE,
                                  !.mod2.pulseStart_ = 0,
                                  !.mod2.hist.offs = Min(@ + 1, OnCap)],
                       FALSE, "PulseOff")
              ELSE Ret(w1, FALSE, "PulseOnWait")
         ELSE IF w1.mod2.pulseStart_ * 1000 >= p.pulseOff_s
              THEN LET n  == (w1.mod2.pulseCount_ + 1) % PULSE_WRAP
                       w2 == [PhaseEnd(w1, "OFF") EXCEPT !.mod2.pulseCount_ = n]
                   IN  IF n >= p.pulseCount
                       THEN Ret([w2 EXCEPT !.stepper = LiftCommand(@),
                                           !.mod2.st_ = "FinalLift",
                                           !.mod2.hist.lifts = @ + 1],
                                FALSE, "PulsesDone")
                       ELSE Ret([WriteRelays(w2, "LOW", "HIGH")
                                    EXCEPT !.mod2.relayOn_ = TRUE,
                                           !.mod2.pulseStart_ = 0,
                                           !.mod2.hist.ons = Min(@ + 1, OnCap)],
                                FALSE, "PulseOn")
              ELSE Ret(w1, FALSE, "PulseOffWait")
    ELSE IF st = "FinalLift"
    THEN IF ~isBusy(w1.stepper)
         THEN Ret([WriteRelays(w1, "HIGH", "HIGH") EXCEPT !.mod2.st_ = "Done"],
                  TRUE, "LiftDone")
         ELSE Ret(w1, FALSE, "FinalLift")
    ELSE Ret(w1, st = "Done", "Fallback")

Mod2Mode_step(w) == CHOOSE r \in {Mod2Machine(w1) : w1 \in {Updated(w)}} : TRUE

Mod2Mode_end(w) ==
    WriteRelays([w EXCEPT !.stepper = enable(setSpeedMmPerSec(@, 0), TRUE),
                          !.sensor = setEnabled(@, FALSE)],
                "HIGH", "HIGH")

Mod2Init ==
    [st_ |-> "MovingDownDetect", relayOn_ |-> FALSE, pulseCount_ |-> 0,
     etchStart_ |-> 0, waitStart_ |-> 0, validateStart_ |-> 0, pulseStart_ |-> 0,
     hist |-> HistInit]

-----------------------------------------------------------------------------
(* KeypadShield *)

\* classify_(analogRead(aPin_)) with the default thresholds
classify_(a) ==
    IF a < 60 THEN "RIGHT"
    ELSE IF a < 200 THEN "UP"
    ELSE IF a < 400 THEN "DOWN"
    ELSE IF a < 600 THEN "LEFT"
    ELSE IF a < 800 THEN "SELECT"
    ELSE "NONE"

\* poll(): the new keypad fields and the key event returned
KeypadShield_poll(k, adc) ==
    LET raw == classify_(adc)
        k1  == IF raw # k.last_ THEN [k EXCEPT !.last_ = raw, !.lastChange_ = 0]
               ELSE k
        chg == k1.lastChange_ >= DEBOUNCE_MS /\ k1.stable_ # k1.last_
        k2  == IF chg THEN [k1 EXCEPT !.stable_ = k1.last_] ELSE k1
    IN  [k |-> k2,
         fell |-> IF chg /\ k2.stable_ # "NONE" THEN k2.stable_ ELSE "NONE"]

KeypadShield_clear(k) ==
    [k EXCEPT !.stable_ = "NONE", !.last_ = "NONE", !.lastChange_ = 0]

KeysInit == [stable_ |-> "NONE", last_ |-> "NONE", lastChange_ |-> 0]

-----------------------------------------------------------------------------
(* JogMode.  held (a note beside the fields): the keypad has read SELECT in *)
(* every pass of loop() since the one that began the mode.                  *)

JogMode_begin(w) ==
    [w EXCEPT !.stepper = enable(@, TRUE), !.jog.firstStep_ = TRUE,
              !.jog.held = TRUE]

JogMode_step(w) ==
    LET s0    == w.keys.stable_
        swall == w.jog.firstStep_ /\ s0 = "SELECT"
        w1    == [w EXCEPT !.keys = IF swall THEN KeypadShield_clear(@) ELSE @,
                           !.jog.firstStep_ = FALSE,
                           !.jog.held = @ /\ w.keys.last_ = "SELECT"]
        s     == IF swall THEN "NONE" ELSE s0
        v     == IF s = "UP" THEN (IF ~PosLeq(w.stepper, Z_MIN) THEN -JOG_SPEED ELSE 0)
                 ELSE IF s = "DOWN"
                      THEN (IF ~PosGeq(w.stepper, Z_MAX) THEN JOG_SPEED ELSE 0)
                 ELSE 0
    IN  Ret([w1 EXCEPT !.stepper = StepperDriver_update(setSpeedMmPerSec(@, v))],
            s = "SELECT", "Jog")

JogMode_end(w) ==
    [w EXCEPT !.stepper = enable(setSpeedMmPerSec(@, 0), TRUE)]

JogInit == [firstStep_ |-> TRUE, held |-> FALSE]

-----------------------------------------------------------------------------
(* ParametersMode.  digits_ holds the seven characters as digit values,     *)
(* with -1 for the '.'; the LCD-only fields (needRedraw_, blink) are left   *)
(* out.  Parameter values are in thousandths of their unit.                 *)

ParametersMode_begin(w) ==
    [w EXCEPT !.param.state_ = "SelectMode",
              !.param.selectedMode_ = 0,
              !.param.selectedParam_ = 0,
              !.param.selHeld_ = FALSE,
              !.param.lastKey_ = "NONE",
              !.param.firstStep_ = TRUE,
              !.param.ignoreSelectRelease_ = FALSE]

ParametersMode_end(w) == w

paramCountForMode(mode) == IF mode = 0 THEN 3 ELSE 5

startEditFloat(pm, value) ==
    LET v  == IF value < 0 THEN 0 ELSE IF value > 999999 THEN 999999 ELSE value
        ip == Min(v \div 1000, 999)
        fp == v % 1000
    IN  [pm EXCEPT !.digits_ = <<(ip \div 100) % 10, (ip \div 10) % 10, ip % 10, -1,
                                 (fp \div 100) % 10, (fp \div 10) % 10, fp % 10>>,
                   !.cursor_ = 0]

floatFromDigits(pm) ==
    LET d == pm.digits_
    IN  (d[1] * 100 + d[2] * 10 + d[3]) * 1000 + (d[5] * 100 + d[6] * 10 + d[7])

updateFloatEditor(pm, k) ==
    LET c1 == IF k = "LEFT" /\ pm.cursor_ > 0 THEN pm.cursor_ - 1 ELSE pm.cursor_
        c2 == IF k = "RIGHT" /\ c1 < 6 THEN c1 + 1 ELSE c1
        d  == pm.digits_[c2 + 1]
        d2 == IF k = "UP" THEN (d + 1) % 10 ELSE IF k = "DOWN" THEN (d + 9) % 10 ELSE d
    IN  [pm EXCEPT !.cursor_ = c2,
                   !.digits_ = IF k \in {"UP", "DOWN"} /\ d # -1
                               THEN [@ EXCEPT ![c2 + 1] = d2] ELSE @]

startEditInt(pm, value) ==
    LET v == IF value < 0 THEN 0 ELSE IF value > 999 THEN 999 ELSE value
    IN  [pm EXCEPT !.idigits_ = <<(v \div 100) % 10, (v \div 10) % 10, v % 10>>,
                   !.icursor_ = 0]

intFromDigits(pm) ==
    pm.idigits_[1] * 100 + pm.idigits_[2] * 10 + pm.idigits_[3]

updateIntEditor(pm, k) ==
    LET c1 == IF k = "LEFT" /\ pm.icursor_ > 0 THEN pm.icursor_ - 1 ELSE pm.icursor_
        c2 == IF k = "RIGHT" /\ c1 < 2 THEN c1 + 1 ELSE c1
        d  == pm.idigits_[c2 + 1]
        d2 == IF k = "UP" THEN (d + 1) % 10 ELSE IF k = "DOWN" THEN (d + 9) % 10 ELSE d
    IN  [pm EXCEPT !.icursor_ = c2, !.idigits_ = [@ EXCEPT ![c2 + 1] = d2]]

\* checkLongPress(s, now): the new fields and the result
checkLongPress(pm, s) ==
    IF s = "SELECT"
    THEN IF ~pm.selHeld_
         THEN [pm |-> [pm EXCEPT !.selHeld_ = TRUE, !.selDownMs_ = 0], long |-> FALSE]
         ELSE IF pm.selDownMs_ >= LONG_PRESS_MS
              THEN [pm |-> [pm EXCEPT !.selHeld_ = FALSE], long |-> TRUE]
              ELSE [pm |-> pm, long |-> FALSE]
    ELSE [pm |-> [pm EXCEPT !.selHeld_ = FALSE], long |-> FALSE]

\* the parameter the editor shows: its value, and gParams with it set to v
ParamValue(g, mode, idx) ==
    IF mode = 0
    THEN (IF idx = 0 THEN g.mod1.plungeAfterSurface_mm
          ELSE IF idx = 1 THEN g.mod1.etchingThreshold_A
          ELSE g.mod1.retractSpeed_mm_s)
    ELSE (IF idx = 0 THEN g.mod2.plungeAfterSurface_mm
          ELSE IF idx = 1 THEN g.mod2.etchingThreshold_A
          ELSE IF idx = 2 THEN g.mod2.plungeAfterEtch_mm
          ELSE IF idx = 4 THEN g.mod2.pulseOn_s
          ELSE 0)

StoreFloat(g, mode, idx, v) ==
    IF mode = 0
    THEN (IF idx = 0 THEN [g EXCEPT !.mod1.plungeAfterSurface_mm = v]
          ELSE IF idx = 1 THEN [g EXCEPT !.mod1.etchingThreshold_A = v]
          ELSE IF idx = 2 THEN [g EXCEPT !.mod1.retractSpeed_mm_s = v]
          ELSE g)
    ELSE (IF idx = 0 THEN [g EXCEPT !.mod2.plungeAfterSurface_mm = v]
          ELSE IF idx = 1 THEN [g EXCEPT !.mod2.etchingThreshold_A = v]
          ELSE IF idx = 2 THEN [g EXCEPT !.mod2.plungeAfterEtch_mm = v]
          ELSE IF idx = 4 THEN [g EXCEPT !.mod2.pulseOn_s = v]
          ELSE g)

StoreInt(g, mode, idx, v) ==
    IF mode = 1 /\ idx = 3 THEN [g EXCEPT !.mod2.pulseCount = v] ELSE g

ParametersMode_step(w) ==
    LET s0    == w.keys.stable_
        prev  == w.param.lastKey_
        swall == w.param.firstStep_ /\ s0 = "SELECT"
        s     == IF swall THEN "NONE" ELSE s0
        w1    == [w EXCEPT !.keys = IF swall THEN KeypadShield_clear(@) ELSE @,
                           !.param.firstStep_ = FALSE]
        lp    == checkLongPress(w1.param, s)
        long  == lp.long
        chg   == s # prev
        pm    == [lp.pm EXCEPT !.lastKey_ = s]
        w2    == [w1 EXCEPT !.param = pm]
        dirk  == s \in {"UP", "DOWN", "LEFT", "RIGHT"}
        mode  == pm.selectedMode_
        idx   == pm.selectedParam_
    IN
    IF pm.state_ = "SelectMode"
    THEN LET a == IF chg /\ dirk
                  THEN [pm EXCEPT !.selectedMode_ = IF @ = 0 THEN 1 ELSE 0] ELSE pm
             b == IF chg /\ prev = "SELECT" /\ s = "NONE" /\ ~long
                  THEN (IF a.ignoreSelectRelease_
                        THEN [a EXCEPT !.ignoreSelectRelease_ = FALSE]
                        ELSE [a EXCEPT !.selectedParam_ = 0, !.state_ = "SelectParam"])
                  ELSE a
         IN  Ret([w2 EXCEPT !.param = b], long, "ParamSelectMode")
    ELSE IF pm.state_ = "SelectParam"
    THEN LET a == IF chg /\ s = "UP" /\ idx > 0
                  THEN [pm EXCEPT !.selectedParam_ = @ - 1] ELSE pm
             b == IF chg /\ s = "DOWN" /\ a.selectedParam_ < paramCountForMode(mode) - 1
                  THEN [a EXCEPT !.selectedParam_ = @ + 1] ELSE a
             c == IF chg /\ s = "SELECT" /\ ~long
                  THEN (IF mode = 1 /\ b.selectedParam_ = 3
                        THEN [startEditInt(b, w2.gParams.mod2.pulseCount)
                                 EXCEPT !.state_ = "EditInt"]
                        ELSE [startEditFloat(b, ParamValue(w2.gParams, mode,
                                                           b.selectedParam_))
                                 EXCEPT !.state_ = "EditFloat"])
                  ELSE b
             d == IF long
                  THEN [c EXCEPT !.state_ = "SelectMode", !.ignoreSelectRelease_ = TRUE]
                  ELSE c
         IN  Ret([w2 EXCEPT !.param = d], FALSE, "ParamSelectParam")
    ELSE IF pm.state_ = "EditFloat"
    THEN LET a  == IF chg /\ dirk THEN updateFloatEditor(pm, s) ELSE pm
             sv == chg /\ s = "SELECT" /\ ~long
             b  == IF sv THEN [a EXCEPT !.state_ = "SelectParam"] ELSE a
             c  == IF long
                   THEN [b EXCEPT !.state_ = "SelectMode", !.ignoreSelectRelease_ = TRUE]
                   ELSE b
             g  == IF sv \/ long
                   THEN StoreFloat(w2.gParams, mode, idx, floatFromDigits(a))
                   ELSE w2.gParams
         IN  Ret([w2 EXCEPT !.param = c, !.gParams = g], FALSE, "ParamEditFloat")
    ELSE \* EditInt
         LET a  == IF chg /\ dirk THEN updateIntEditor(pm, s) ELSE pm
             sv == chg /\ s = "SELECT" /\ ~long
             b  == IF sv THEN [a EXCEPT !.state_ = "SelectParam"] ELSE a
             c  == IF long
                   THEN [b EXCEPT !.state_ = "SelectMode", !.ignoreSelectRelease_ = TRUE]
                   ELSE b
             g  == IF sv \/ long
                   THEN StoreInt(w2.gParams, mode, idx, intFromDigits(a))
                   ELSE w2.gParams
         IN  Ret([w2 EXCEPT !.param = c, !.gParams = g], FALSE, "ParamEditInt")

ParamInit ==
    [state_ |-> "SelectMode", selectedMode_ |-> 0, selectedParam_ |-> 0,
     selHeld_ |-> FALSE, selDownMs_ |-> 0, lastKey_ |-> "NONE", firstStep_ |-> TRUE,
     ignoreSelectRelease_ |-> FALSE, digits_ |-> <<0, 0, 0, -1, 0, 0, 0>>,
     cursor_ |-> 0, idigits_ |-> <<0, 0, 0>>, icursor_ |-> 0]

-----------------------------------------------------------------------------
(* ModeController over modes[] = { home, mod1, mod2, jog, paramMode } *)

MODE_COUNT == 5
ModeName(i) == <<"HOME", "MOD1", "MOD2", "JOG", "PARAM">>[i + 1]

Called(w, i, method) == [w EXCEPT !.obs.calls = Append(@, <<ModeName(i), method>>)]

\* modes_[i]->begin(), ->step(), ->end()
ModeBegin(w, i) ==
    LET w1 == Called(w, i, "begin")
    IN  CASE i = 0 -> HomeMode_begin(w1)
          [] i = 1 -> Mod1Mode_begin(w1)
          [] i = 2 -> Mod2Mode_begin(w1)
          [] i = 3 -> JogMode_begin(w1)
          [] OTHER -> ParametersMode_begin(w1)

ModeStep(w, i, limit) ==
    LET w1 == Called(w, i, "step")
    IN  CASE i = 0 -> HomeMode_step(w1, limit)
          [] i = 1 -> Mod1Mode_step(w1)
          [] i = 2 -> Mod2Mode_step(w1)
          [] i = 3 -> JogMode_step(w1)
          [] OTHER -> ParametersMode_step(w1)

ModeEnd(w, i) ==
    LET w1 == Called(w, i, "end")
    IN  CASE i = 0 -> HomeMode_end(w1)
          [] i = 1 -> Mod1Mode_end(w1)
          [] i = 2 -> Mod2Mode_end(w1)
          [] i = 3 -> JogMode_end(w1)
          [] OTHER -> ParametersMode_end(w1)

start_(w, idx) ==
    [ModeBegin([w EXCEPT !.ctrl.running_ = idx], idx)
        EXCEPT !.ctrl.ui_ = "RUNNING", !.obs.runs = Min(@ + 1, RunCap)]

stop_(w) ==
    [ModeEnd(w, w.ctrl.running_) EXCEPT !.ctrl.ui_ = "MENU", !.obs.stopped = TRUE]

\* ModeController::begin()
ModeController_begin(w) ==
    start_([w EXCEPT !.ctrl.selected_ = 0, !.ctrl.ui_ = "MENU"], 0)

\* a RUNNING branch without the return after the first stop_()
AfterStep_twice(w, k) ==
    LET isJog == ModeName(w.ctrl.running_) \in {"JOG", "PARAM"}
        w1    == IF ~isJog /\ k = "SELECT" THEN stop_(w) ELSE w
    IN  IF w1.obs.ret THEN stop_(w1) ELSE w1

\* the RUNNING branch of loop() after step() returned: w is the world step()
\* left, k the key event of this pass
AfterStep(w, k) ==
    LET isJog == ModeName(w.ctrl.running_) \in {"JOG", "PARAM"}
    IN  IF ~isJog /\ k = "SELECT" THEN stop_(w)
        ELSE IF w.obs.ret THEN stop_(w)
        ELSE w

\* loop() after keys_.poll() returned k
Dispatch(w, k, limit) ==
    LET sel == w.ctrl.selected_
    IN  IF w.ctrl.ui_ = "MENU"
        THEN IF k = "LEFT"
             THEN [w EXCEPT !.ctrl.selected_ = IF sel = 0 THEN MODE_COUNT - 1
                                               ELSE sel - 1]
             ELSE IF k = "RIGHT"
             THEN [w EXCEPT !.ctrl.selected_ = (sel + 1) % MODE_COUNT]
             ELSE IF k = "SELECT"
             THEN start_(w, sel)
             ELSE w
        ELSE CHOOSE r \in {AfterStep(w1, k) :
                              w1 \in {ModeStep(w, w.ctrl.running_, limit)}} : TRUE

\* keys_.poll() as loop() uses it: the world with the keypad's new fields
Polled(w, pr) == [w EXCEPT !.keys = pr.k, !.obs.key = pr.fell]

\* ModeController::loop(); adc: the keypad's analog reading, limit: the level
\* of the limit pin
ModeController_loop(w, adc, limit) ==
    CHOOSE r \in {Dispatch(Polled(w, pr), pr.fell, limit) :
                     pr \in {KeypadShield_poll(w.keys, adc)}} : TRUE

-----------------------------------------------------------------------------
(* loop() of the sketch: currentSensor.update(); ctrl.loop() *)

ObsInit ==
    [calls |-> <<>>, ret |-> FALSE, br |-> "none", seen |-> {}, stopped |-> FALSE,
     key |-> "NONE", elapsed |-> 0, slept |-> 0, phase |-> "none", phaseMs |-> 0, I |-> <<0, 1>>,
     runs |-> 0,
     after |-> [speed |-> 0, motion |-> "Idle", target |-> 0, sensing |-> FALSE,
                relays |-> <<"Z", "Z">>, st |-> "none"]]

\* one pass of loop(), ms after the previous one, with the inputs it reads
loop(w, ms, adc, limit, irms) ==
    LET w0 == Elapse([w EXCEPT !.obs = [ObsInit EXCEPT !.runs = w.obs.runs]], ms)
    IN  CHOOSE r \in {ModeController_loop(w1, adc, limit) :
                         w1 \in {[w0 EXCEPT !.sensor = CurrentSensor_update(@, irms)]}} :
            TRUE

\* analog readings of the keypad, one per key
AdcNone   == 1000
AdcSelect == 700
AdcLeft   == 500
AdcDown   == 300
AdcUp     == 100
AdcRight  == 30

\* the limit switch: open or closed, closed at the latest MaxSeekSteps below
\* the position counter's zero
LimitLevels ==
    IF stepper.pos_steps_ <= -MaxSeekSteps THEN {"LOW"} ELSE {"LOW", "HIGH"}

\* readings the sensor can publish (mA)
IrmsLow  == 0
IrmsHigh == 600
IrmsWeak == 60
IrmsStrong == 1200
IrmsSet  == {IrmsLow, IrmsHigh}

GParamsDefault ==
    [mod1 |-> [plungeAfterSurface_mm |-> 4000, etchingThreshold_A |-> 50,
               retractSpeed_mm_s |-> 15],
     mod2 |-> [plungeAfterSurface_mm |-> 4000, etchingThreshold_A |-> 50,
               plungeAfterEtch_mm |-> 3000, pulseCount |-> 5,
               pulseOn_s |-> 500, pulseOff_s |-> 2000]]

\* the state before setup()
PowerUp ==
    [stepper |-> StepperInit,
     sensor |-> [enabled_ |-> FALSE, Irms_ |-> 0],
     baselineCurrent |-> <<0, 1>>,
     pins |-> PinsInit,
     Iavg |-> MovingAverage_reset(NLong),
     IavgS |-> MovingAverage_reset(NShort),
     gParams |-> GParamsDefault,
     keys |-> KeysInit,
     ctrl |-> [ui_ |-> "MENU", selected_ |-> 0, running_ |-> 0],
     home |-> HomeInit, mod1 |-> Mod1Init, mod2 |-> Mod2Init, jog |-> JogInit,
     param |-> ParamInit,
     obs |-> ObsInit]

\* setup(): keys.begin(); currentSensor.begin(); ctrl.begin()
AfterSetup == ModeController_begin(PowerUp)

Holds(w) ==
    /\ stepper = w.stepper
    /\ sensor = w.sensor
    /\ baselineCurrent = w.baselineCurrent
    /\ pins = w.pins
    /\ Iavg = w.Iavg
    /\ IavgS = w.IavgS
    /\ gParams = w.gParams
    /\ keys = w.keys
    /\ ctrl = w.ctrl
    /\ home = w.home
    /\ mod1 = w.mod1
    /\ mod2 = w.mod2
    /\ jog = w.jog
    /\ param = w.param
    /\ obs = w.obs
    /\ micros = 0

IsWorld(w) == Holds(w) /\ twin = NoTwin

-----------------------------------------------------------------------------
(* Specification of a HOME run: power-up, the operator may only press       *)
(* SELECT (cancel, and start HOME again from the menu).                     *)

InitHome == IsWorld(AfterSetup)

MenuLoop(ms, adcs, irmss) ==
    /\ ctrl.ui_ = "MENU"
    /\ \E adc \in adcs, irms \in irmss :
       \E w \in {loop(World, ms, adc, "HIGH", irms)} : Commit(w)

HomeLoop(ms, adcs, irmss) ==
    /\ ctrl.ui_ = "RUNNING" /\ ctrl.running_ = 0
    /\ \E adc \in adcs, limit \in LimitLevels, irms \in irmss :
       \E w \in {loop(World, ms, adc, limit, irms)} : Commit(w)

NextHome ==
    \/ MenuLoop(HomeLoopMs, {AdcNone, AdcSelect}, IrmsSet)
    \/ HomeLoop(HomeLoopMs, {AdcNone, AdcSelect}, IrmsSet)

SpecHome == InitHome /\ [][NextHome]_vars

-----------------------------------------------------------------------------
(* Specification of the etching runs.  The start is the menu after an       *)
(* undisturbed HOME; the operator has selected MOD1 or MOD2, may have jogged *)
(* the tip down and may have edited MOD2's parameters.  The operator starts  *)
(* one run and may cancel it with SELECT; the sensor publishes any reading.  *)

\* the menu after HOME ran from setup undisturbed, the switch closing at the
\* first pass and the idle current reading 0
Homed ==
    [PowerUp EXCEPT
        !.stepper = [pos_steps_ |-> Lround(HOME_TARGET * StepsPerMm, 1000),
                     speed_mm_s_ |-> 0, dir_ |-> TRUE, tNextStep_ |-> 0,
                     motion_ |-> "Idle", target_steps_ |-> 0, en |-> TRUE],
        !.home = [homed_ |-> TRUE, target_ |-> HOME_TARGET,
                  baselineMeasuring_ |-> FALSE, baselineDone_ |-> TRUE,
                  baselineStart_ |-> HOME_MEASURE, baselineSum_ |-> 0,
                  baselineCount_ |-> HomeSamples,
                  hist |-> [order |-> <<"limit", "arrived", "baseline">>,
                            zeroed |-> TRUE, arrived |-> TRUE,
                            measMs |-> HOME_MEASURE, acc |-> <<0, HomeSamples>>,
                            writes |-> 1]],
        !.baselineCurrent = <<0, HomeSamples>>,
        !.keys.lastChange_ = DEBOUNCE_MS,
        !.mod1.waitStart_ = WAIT_MS, !.mod1.validateStart_ = VALIDATE_MS,
        !.mod1.etchStart_ = HOLD_MS,
        !.mod2.waitStart_ = WAIT_MS, !.mod2.validateStart_ = VALIDATE_MS,
        !.mod2.etchStart_ = HOLD_MS, !.mod2.pulseStart_ = PULSE_CAP,
        !.param.selDownMs_ = LONG_PRESS_MS]

\* the menu with mode sel selected, the tip at pos (um), parameters gp
EtchStart(sel, pos, gp) ==
    [Homed EXCEPT !.ctrl.selected_ = sel,
                  !.stepper = setPositionMm(@, pos),
                  !.jog.firstStep_ = (pos = HOME_TARGET),
                  !.gParams = gp]

\* the height at which the run starts, reached by jogging: JogDepth mm above
\* the lower soft limit
StartHeights == {Z_MAX - JogDepth * 1000}

\* MOD2 parameter sets: the defaults, and an etching threshold of 1.000 A
\* with 1..MaxPulses pulses
Mod2ParamSets ==
    {GParamsDefault} \cup
    {[GParamsDefault EXCEPT !.mod2.etchingThreshold_A = ThresholdHigh,
                            !.mod2.pulseCount = n] : n \in 1..MaxPulses}

InitEtch ==
    \/ \E pos \in StartHeights : IsWorld(EtchStart(1, pos, GParamsDefault))
    \/ \E pos \in StartHeights, gp \in Mod2ParamSets : IsWorld(EtchStart(2, pos, gp))

Mod1Loop(ms, adcs, irmss) ==
    /\ ctrl.ui_ = "RUNNING" /\ ctrl.running_ = 1
    /\ \E adc \in adcs, irms \in irmss :
       \E w \in {loop(World, ms, adc, "HIGH", irms)} : Commit(w)

Mod2Loop(ms, adcs, irmss) ==
    /\ ctrl.ui_ = "RUNNING" /\ ctrl.running_ = 2
    /\ \E adc \in adcs, irms \in irmss :
       \E w \in {loop(World, ms, adc, "HIGH", irms)} : Commit(w)

\* the menu until the run is started; the behaviour ends when the run does
StartLoop(ms, adcs) == obs.runs = 0 /\ MenuLoop(ms, adcs, IrmsSet)

NextEtch ==
    \/ StartLoop(EtchLoopMs, {AdcNone, AdcSelect})
    \/ Mod1Loop(EtchLoopMs, {AdcNone, AdcSelect}, IrmsSet)
    \/ Mod2Loop(EtchLoopMs, {AdcNone, AdcSelect}, IrmsSet)

SpecEtch == InitEtch /\ [][NextEtch]_vars

-----------------------------------------------------------------------------
(* Specification of the pulse train: a MOD2 run with an etching threshold   *)
(* of 1.000 A in which contact current flows throughout and the operator    *)
(* does not cancel, for pulse counts and ON durations the editor can store. *)

\* pulse counts: 0..MaxPulses and the two around the range of pulseCount_
PulseCounts == (0..MaxPulses) \cup {PULSE_WRAP - 1, PULSE_WRAP}

\* ON durations, thousandths of a second: the default and the editor's largest
PulseOnTimes == {GParamsDefault.mod2.pulseOn_s, FLOAT_MAX}

PulseParamSets ==
    {[GParamsDefault EXCEPT !.mod2.etchingThreshold_A = ThresholdHigh,
                            !.mod2.pulseCount = n,
                            !.mod2.pulseOn_s = on] :
        n \in PulseCounts, on \in PulseOnTimes}

InitPulse ==
    \E pos \in StartHeights, gp \in PulseParamSets : IsWorld(EtchStart(2, pos, gp))

NextPulse ==
    \/ StartLoop(EtchLoopMs, {AdcNone, AdcSelect})
    \/ Mod2Loop(EtchLoopMs, {AdcNone}, {IrmsHigh})

SpecPulse == InitPulse /\ [][NextPulse]_vars

\* loop() is called again and again for as long as the controller is powered
SpecPulseFair == SpecPulse /\ WF_vars(NextPulse)

-----------------------------------------------------------------------------
(* Specification of the whole controller: setup(), then loop() again and    *)
(* again.  HOME runs from setup; the operator may cancel it, moves through  *)
(* the menu and starts one more mode, which runs until it ends or is        *)
(* stopped.                                                                 *)

Init == IsWorld(AfterSetup)

\* loop() while the menu shows, until the run after HOME has been started
SysMenuLoop(ms, adcs) == obs.runs = 1 /\ MenuLoop(ms, adcs, {IrmsLow})

JogLoop(ms, adcs) ==
    /\ ctrl.ui_ = "RUNNING" /\ ctrl.running_ = 3
    /\ \E adc \in adcs :
       \E w \in {loop(World, ms, adc, "HIGH", IrmsLow)} : Commit(w)

ParamLoop(ms, adcs) ==
    /\ ctrl.ui_ = "RUNNING" /\ ctrl.running_ = 4
    /\ \E adc \in adcs :
       \E w \in {loop(World, ms, adc, "HIGH", IrmsLow)} : Commit(w)

Next ==
    \/ SysMenuLoop(HomeLoopMs, {AdcNone, AdcSelect, AdcLeft, AdcRight})
    \/ HomeLoop(HomeLoopMs, {AdcNone, AdcSelect}, IrmsSet)
    \/ Mod1Loop(HomeLoopMs, {AdcNone, AdcSelect}, {IrmsLow})
    \/ Mod2Loop(HomeLoopMs, {AdcNone, AdcSelect}, {IrmsLow})
    \/ JogLoop(HomeLoopMs, {AdcNone, AdcSelect, AdcUp, AdcDown})
    \/ ParamLoop(HomeLoopMs, {AdcNone, AdcSelect})

Spec == Init /\ [][Next]_vars

-----------------------------------------------------------------------------
(* Specification of the stepper's timing: update() called at counter values *)
(* that grow by one to three ticks, with speed and move commands between    *)
(* the calls.  The driver starts idle, at a counter value near zero or near *)
(* the wrap, with tNextStep_ holding anything.                              *)

StartSteps == {0, 2}
StartClocks == {0, MicrosWrap - 3 * TickUs}
StaleDeadlines == {0, 1, MicrosWrap - 1}
StepDts == {TickUs, 3 * TickUs}
\* um/s: stop, below one step a second, homing, jogging down, above the maximum
StepSpeeds == {0, 500, HOME_SPEED, -JOG_SPEED, 2 * MAX_MM_S}
MoveTargets == {0, 2000, 3000}
MoveSpeeds == {0, HOME_SPEED, MAX_MM_S}
\* um: nothing, and less than half a step
MoveDistances == {0, 400}

StepObsInit ==
    [op |-> "none",       \* the last call: "update", "speed", "move"
     n |-> 0,             \* update() calls made
     cmds |-> 0,          \* commands given
     pulse |-> FALSE,     \* the last update() emitted a pulse
     late |-> 0,          \* ... that much after it was due, us
     gap |-> -1,          \* time since the last pulse of this motion, -1: none yet
     per |-> 0,           \* the period in force at that pulse
     fresh |-> FALSE,     \* a start from idle or a move was commanded, no update() yet
     first |-> FALSE,     \* the last update() was the first after such a command,
                          \* at one step a second or more
     early |-> FALSE,     \* the last pulse came less than one period after the
                          \* pulse before it
     halted |-> FALSE,    \* setSpeedMmPerSec(0) was the last command
     midMove |-> FALSE,   \* ... and it came during a move to a target
     nil |-> FALSE]       \* the last command was a move to the position the
                          \* driver was at

OthersPoweredUp ==
    /\ sensor = PowerUp.sensor /\ baselineCurrent = PowerUp.baselineCurrent
    /\ pins = PowerUp.pins /\ Iavg = PowerUp.Iavg /\ IavgS = PowerUp.IavgS
    /\ gParams = PowerUp.gParams /\ keys = PowerUp.keys /\ ctrl = PowerUp.ctrl
    /\ home = PowerUp.home /\ mod1 = PowerUp.mod1 /\ mod2 = PowerUp.mod2
    /\ jog = PowerUp.jog /\ param = PowerUp.param /\ twin = NoTwin

InitStepper ==
    /\ \E pos \in StartSteps, t \in StaleDeadlines :
           stepper = [StepperInit EXCEPT !.pos_steps_ = pos, !.tNextStep_ = t,
                                         !.en = TRUE]
    /\ micros \in StartClocks
    /\ obs = StepObsInit
    /\ OthersPoweredUp

StepsPerSecOk(s) == Abs(s.speed_mm_s_) * StepsPerMm >= 1000
Period(s) == 1000000000 \div (Abs(s.speed_mm_s_) * StepsPerMm)
\* the time the next pulse is due at, seen at counter value now
Due(s, now) == IF s.tNextStep_ = 0 THEN now ELSE s.tNextStep_

\* update(), dt after the last call
StepperUpdate(dt) ==
    /\ obs.n < MaxUpdates
    /\ micros' = (micros + dt) % MicrosWrap
    /\ stepper' = StepperDriver_updateAt(stepper, micros')
    /\ LET pulse == stepper'.pos_steps_ # stepper.pos_steps_
       IN  obs' = [obs EXCEPT
                     !.op = "update", !.n = @ + 1, !.pulse = pulse,
                     !.late = IF pulse
                              THEN (micros' - Due(stepper, micros') + MicrosWrap)
                                       % MicrosWrap
                              ELSE 0,
                     !.gap = IF pulse THEN 0
                             ELSE IF @ >= 0 THEN @ + dt ELSE @,
                     !.per = IF pulse THEN Period(stepper) ELSE @,
                     !.first = obs.fresh /\ StepsPerSecOk(stepper),
                     !.early = pulse /\ obs.gap >= 0 /\ obs.gap + dt < obs.per,
                     !.fresh = FALSE]
    /\ UNCHANGED <<sensor, baselineCurrent, pins, Iavg, IavgS, gParams, keys,
                   ctrl, home, mod1, mod2, jog, param, twin>>

\* a command between two update() calls
StepperCommand(s, fresh, halted) ==
    /\ obs.cmds < MaxCmds
    /\ stepper' = s
    /\ obs' = [obs EXCEPT !.op = IF s.motion_ = "ToTarget" THEN "move" ELSE "speed",
                          !.cmds = @ + 1, !.pulse = FALSE, !.late = 0,
                          !.gap = -1, !.per = 0, !.first = FALSE, !.early = FALSE,
                          !.fresh = fresh, !.halted = halted,
                          !.midMove = halted /\ isBusy(stepper),
                          !.nil = s.motion_ = "ToTarget"
                                  /\ s.target_steps_ = stepper.pos_steps_]
    /\ UNCHANGED <<sensor, baselineCurrent, pins, Iavg, IavgS, gParams, keys,
                   ctrl, home, mod1, mod2, jog, param, micros, twin>>

StepperSpeed(v) ==
    StepperCommand(setSpeedMmPerSec(stepper, v),
                   v # 0 /\ (obs.fresh \/ stepper.motion_ = "Idle"
                                       \/ stepper.speed_mm_s_ = 0),
                   v = 0)

StepperMove(x, v) == StepperCommand(moveToMm(stepper, x, 1, v), TRUE, FALSE)

StepperRelative(dx, v) == StepperCommand(moveRelativeMm(stepper, dx, v), TRUE, FALSE)

NextStepper ==
    \/ \E dt \in StepDts : StepperUpdate(dt)
    \/ \E v \in StepSpeeds : StepperSpeed(v)
    \/ \E x \in MoveTargets, v \in MoveSpeeds : StepperMove(x, v)
    \/ \E dx \in MoveDistances, v \in MoveSpeeds : StepperRelative(dx, v)

SpecStepper == InitStepper /\ [][NextStepper]_vars

-----------------------------------------------------------------------------
(* Specification of the current sensor's timing: begin(), then update()    *)
(* called at counter values that grow by half an interval, an interval or  *)
(* a window, setEnabled() between the calls, and waits of half the         *)
(* counter's range while the sensor is disabled.                           *)

\* <<sampleWindow_us, sampleInterval_us>>: the controller's sensor, and one
\* whose windows are shorter than the time between two samples
SensorConfigs == {<<SAMPLE_WINDOW, SAMPLE_INTERVAL>>, <<SAMPLE_INTERVAL, SAMPLE_WINDOW>>}
SensorClocks == {0, MicrosWrap - SAMPLE_WINDOW}
SensorDts == {SAMPLE_INTERVAL \div 2, SAMPLE_INTERVAL, SAMPLE_WINDOW}
IdleDts == {MicrosWrap \div 2}
AdcReadings == {100, 900}

SensorObsInit ==
    [op |-> "begin",      \* the last call: "begin", "update", "setEnabled"
     n |-> 0,             \* update() calls made
     sampled |-> FALSE,   \* the last update() took a sample
     closed |-> FALSE,    \* ... closed the window
     empty |-> FALSE,     \* ... and the window held no sample
     sampleDue |-> FALSE, \* at the last update() the scheduled sample time had
                          \* been reached
     windowDue |-> FALSE, \* ... and a full window had gone by
     sampleAge |-> 0,     \* time gone by since the scheduled sample time
                          \* (negative: still to go), us
     windowAge |-> 0,     \* time gone by since the start of the window, us
     waited |-> FALSE,    \* the sensor has been disabled for half the
                          \* counter's range
     closes |-> 0,        \* windows closed so far: 0, 1, or 2 for more
     sinceClose |-> 0,    \* time gone by since the last close (or begin()), us
     gap |-> 0,           \* time between the close of the last update() and
                          \* the close before it, us
     off |-> FALSE]       \* the sensor has been disabled since the close
                          \* before the last one

InitSensor ==
    /\ micros \in SensorClocks
    /\ \E cfg \in SensorConfigs :
           sensor = CurrentSensor_begin(CurrentSensor_new(cfg[1], cfg[2]), micros)
    /\ obs = SensorObsInit
    /\ stepper = PowerUp.stepper /\ baselineCurrent = PowerUp.baselineCurrent
    /\ pins = PowerUp.pins /\ Iavg = PowerUp.Iavg /\ IavgS = PowerUp.IavgS
    /\ gParams = PowerUp.gParams /\ keys = PowerUp.keys /\ ctrl = PowerUp.ctrl
    /\ home = PowerUp.home /\ mod1 = PowerUp.mod1 /\ mod2 = PowerUp.mod2
    /\ jog = PowerUp.jog /\ param = PowerUp.param /\ twin = NoTwin

\* update(), dt after the last call, adc on the pin
SensorCall(dt, adc) ==
    /\ obs.n < MaxSensorCalls
    /\ micros' = (micros + dt) % MicrosWrap
    /\ sensor' = CurrentSensor_updateAt(sensor, micros', adc)
    /\ LET sampled == sensor'.nextSampleTime_ # sensor.nextSampleTime_
           closed  == sensor'.windowStart_ # sensor.windowStart_
           sAge    == obs.sampleAge + dt
           wAge    == obs.windowAge + dt
       IN  obs' = [obs EXCEPT
                     !.op = "update", !.n = @ + 1,
                     !.sampled = sampled, !.closed = closed,
                     !.empty = closed /\ ~sampled /\ sensor.nSamples_ = 0,
                     !.sampleDue = sAge >= 0,
                     !.windowDue = wAge >= sensor.sampleWindow_us_,
                     !.sampleAge = IF sampled THEN sAge - sensor.sampleInterval_us_
                                   ELSE sAge,
                     !.windowAge = IF closed THEN wAge - sensor.sampleWindow_us_
                                   ELSE wAge,
                     !.waited = IF sensor.enabled_ THEN @
                                ELSE (@ \/ dt >= MicrosWrap \div 2),
                     !.closes = IF closed THEN Min(@ + 1, 2) ELSE @,
                     !.sinceClose = IF closed THEN 0 ELSE @ + dt,
                     !.gap = IF closed THEN obs.sinceClose + dt ELSE @,
                     !.off = IF closed THEN FALSE ELSE (@ \/ ~sensor.enabled_)]
    /\ UNCHANGED <<stepper, baselineCurrent, pins, Iavg, IavgS, gParams, keys,
                   ctrl, home, mod1, mod2, jog, param, twin>>

\* update() while the sensor is enabled or shortly after the last call
SensorUpdate(dt, adc) == SensorCall(dt, adc)

\* update() after a long time in which the sensor was disabled
SensorIdle(dt) == ~sensor.enabled_ /\ ~obs.waited /\ \E adc \in {0} : SensorCall(dt, adc)

SensorEnable(en) ==
    /\ sensor.enabled_ # en
    /\ sensor' = setEnabled(sensor, en)
    /\ obs' = [obs EXCEPT !.op = "setEnabled", !.sampled = FALSE, !.closed = FALSE,
                          !.empty = FALSE, !.sampleDue = FALSE, !.windowDue = FALSE]
    /\ UNCHANGED <<stepper, baselineCurrent, pins, Iavg, IavgS, gParams, keys,
                   ctrl, home, mod1, mod2, jog, param, micros, twin>>

NextSensor ==
    \/ \E dt \in SensorDts, adc \in AdcReadings : SensorUpdate(dt, adc)
    \/ \E dt \in IdleDts : SensorIdle(dt)
    \/ \E en \in BOOLEAN : SensorEnable(en)

SpecSensor == InitSensor /\ [][NextSensor]_vars

-----------------------------------------------------------------------------
(* Specification of two etching runs in a row: from the menu after HOME the *)
(* operator starts MOD1 or MOD2, cancels it during or after the surface     *)
(* search, moves between the two entries of the menu and starts a second    *)
(* run, which is cancelled in the same way.                                 *)

InitRuns == \E pos \in StartHeights : IsWorld(EtchStart(1, pos, GParamsDefault))

\* the menu: SELECT, and the key that leads to the other etching mode
RunsMenuLoop(ms) ==
    /\ obs.runs < 2
    /\ MenuLoop(ms, {AdcNone, AdcSelect,
                     IF ctrl.selected_ = 1 THEN AdcRight ELSE AdcLeft}, {IrmsLow})

\* a pass of loop() in the run of mode i: any reading while the machine
\* searches, SELECT held from then on
SearchLoop(i, ms) ==
    /\ ctrl.ui_ = "RUNNING" /\ ctrl.running_ = i
    /\ \E adc \in IF (IF i = 1 THEN mod1 ELSE mod2).st_ = "MovingDownDetect"
                   THEN {AdcNone, AdcSelect} ELSE {AdcSelect},
          irms \in IrmsSet :
       \E w \in {loop(World, ms, adc, "HIGH", irms)} : Commit(w)

NextRuns ==
    \/ RunsMenuLoop(EtchLoopMs)
    \/ SearchLoop(1, EtchLoopMs)
    \/ SearchLoop(2, EtchLoopMs)

SpecRuns == InitRuns /\ [][NextRuns]_vars

-----------------------------------------------------------------------------
(* Specification of the sensor's windows: the enabled sensor with a window *)
(* of WindowLen sample intervals, update() called once per interval with   *)
(* any of three readings on the pin.                                        *)

WindowCodes == {100, 500, 900}
WindowClocks == {0, MicrosWrap - 2 * SAMPLE_INTERVAL}

WindowObsInit ==
    [op |-> "begin",     \* the last call: "begin", "update"
     n |-> 0,            \* update() calls made
     closed |-> FALSE,   \* the last update() closed the window
     codes |-> <<>>,     \* the readings taken in the window, oldest first
     open |-> <<>>,      \* <<the sensor, the counter>> when the window opened
     before |-> 0]       \* Irms_ before the last update()

InitWindow ==
    /\ micros \in WindowClocks
    /\ sensor = setEnabled(CurrentSensor_begin(
                     CurrentSensor_new(WindowLen * SAMPLE_INTERVAL, SAMPLE_INTERVAL),
                     micros), TRUE)
    /\ obs = [WindowObsInit EXCEPT !.open = <<sensor, micros>>]
    /\ stepper = PowerUp.stepper /\ baselineCurrent = PowerUp.baselineCurrent
    /\ pins = PowerUp.pins /\ Iavg = PowerUp.Iavg /\ IavgS = PowerUp.IavgS
    /\ gParams = PowerUp.gParams /\ keys = PowerUp.keys /\ ctrl = PowerUp.ctrl
    /\ home = PowerUp.home /\ mod1 = PowerUp.mod1 /\ mod2 = PowerUp.mod2
    /\ jog = PowerUp.jog /\ param = PowerUp.param /\ twin = NoTwin

\* update(), one sample interval after the last call, adc on the pin
WindowUpdate(adc) ==
    /\ obs.n < MaxWindowCalls
    /\ micros' = (micros + SAMPLE_INTERVAL) % MicrosWrap
    /\ sensor' = CurrentSensor_updateAt(sensor, micros', adc)
    /\ LET sampled == sensor'.nextSampleTime_ # sensor.nextSampleTime_
           fresh   == obs.closed
           had     == IF fresh THEN <<>> ELSE obs.codes
       IN  obs' = [obs EXCEPT
                     !.op = "update", !.n = @ + 1,
                     !.closed = sensor'.windowStart_ # sensor.windowStart_,
                     !.codes = IF sampled THEN Append(had, adc) ELSE had,
                     !.open = IF fresh THEN <<sensor, micros>> ELSE @,
                     !.before = sensor.Irms_]
    /\ UNCHANGED <<stepper, baselineCurrent, pins, Iavg, IavgS, gParams, keys,
                   ctrl, home, mod1, mod2, jog, param, twin>>

NextWindow == \E adc \in WindowCodes : WindowUpdate(adc)

SpecWindow == InitWindow /\ [][NextWindow]_vars

-----------------------------------------------------------------------------
(* Specification of the parameter editor: from the menu with PARAM selected *)
(* the operator enters the editor and walks the lists with all five keys;  *)
(* within an edit UP and DOWN change the leading digit once, in the first  *)
(* value that is edited.                                                    *)

InitParam == IsWorld(EtchStart(4, HOME_TARGET, GParamsDefault))

\* the value in the edit buffer is the stored one
Untouched ==
    IF param.state_ = "EditFloat"
    THEN floatFromDigits(param)
             = ParamValue(gParams, param.selectedMode_, param.selectedParam_)
    ELSE intFromDigits(param) = gParams.mod2.pulseCount

ParamKeys ==
    IF param.state_ \in {"EditFloat", "EditInt"}
    THEN {AdcNone, AdcSelect} \cup
         (IF Untouched /\ gParams = GParamsDefault
          THEN {AdcUp, AdcDown} ELSE {})
    ELSE {AdcNone, AdcSelect, AdcUp, AdcDown, AdcLeft, AdcRight}

EditLoop(ms) ==
    /\ ctrl.ui_ = "RUNNING" /\ ctrl.running_ = 4
    /\ \E adc \in ParamKeys :
       \E w \in {loop(World, ms, adc, "HIGH", IrmsLow)} : Commit(w)

NextParam ==
    \/ StartLoop(HomeLoopMs, {AdcNone, AdcSelect})
    \/ EditLoop(HomeLoopMs)

SpecParam == InitParam /\ [][NextParam]_vars

-----------------------------------------------------------------------------
(* Specification of two controllers side by side: one with MOD1 selected,  *)
(* one with MOD2, the same parameters, the tip at the same height.  Both   *)
(* read the same key and the same sensor reading in every pass of loop(),  *)
(* the passes taking the same time; the operator starts the run and leaves *)
(* the keys alone.  The behaviour ends when both have confirmed a contact, *)
(* when one run has ended, or when the two machines are in different       *)
(* states.                                                                  *)

\* readings: none, just above the surface threshold, above the confirmation
\* threshold
TwinIrms == {IrmsLow, IrmsWeak, IrmsHigh}

SearchStates == {"MovingDownDetect", "Wait1", "MoveDown1", "Wait2", "Validate30V"}

InitTwin ==
    \E pos \in StartHeights :
        /\ Holds(EtchStart(1, pos, GParamsDefault))
        /\ twin = EtchStart(2, pos, GParamsDefault)

TwinMenuLoop(ms) ==
    /\ ctrl.ui_ = "MENU" /\ twin.ctrl.ui_ = "MENU" /\ obs.runs = 0
    /\ \E adc \in {AdcNone, AdcSelect}, irms \in TwinIrms :
           /\ \E w \in {loop(World, ms, adc, "HIGH", irms)} : Assign(w)
           /\ twin' = loop(twin, ms, adc, "HIGH", irms)

TwinRunLoop(ms) ==
    /\ ctrl.ui_ = "RUNNING" /\ twin.ctrl.ui_ = "RUNNING"
    /\ mod1.st_ \in SearchStates /\ twin.mod2.st_ = mod1.st_
    /\ \E irms \in TwinIrms :
           /\ \E w \in {loop(World, ms, AdcNone, "HIGH", irms)} : Assign(w)
           /\ twin' = loop(twin, ms, AdcNone, "HIGH", irms)

NextTwin == TwinMenuLoop(EtchLoopMs) \/ TwinRunLoop(EtchLoopMs)

SpecTwin == InitTwin /\ [][NextTwin]_vars

-----------------------------------------------------------------------------
(* Specification of the surface search and the validation of one run: MOD1 *)
(* or MOD2 is started from the menu and left alone; the sensor publishes   *)
(* no current or a strong one.  The behaviour ends when a contact is       *)
(* confirmed or the run ends.                                               *)

StrongIrms == {IrmsLow, IrmsStrong}

InitValidate ==
    \E i \in {1, 2}, pos \in StartHeights : IsWorld(EtchStart(i, pos, GParamsDefault))

ValidateLoop(i, ms) ==
    /\ ctrl.ui_ = "RUNNING" /\ ctrl.running_ = i
    /\ (IF i = 1 THEN mod1 ELSE mod2).st_ \in SearchStates
    /\ \E irms \in StrongIrms :
       \E w \in {loop(World, ms, AdcNone, "HIGH", irms)} : Commit(w)

NextValidate ==
    \/ StartLoop(EtchLoopMs, {AdcNone, AdcSelect})
    \/ ValidateLoop(1, EtchLoopMs)
    \/ ValidateLoop(2, EtchLoopMs)

SpecValidate == InitValidate /\ [][NextValidate]_vars

-----------------------------------------------------------------------------
(* Specification of runs near the soft limits: MOD1 or MOD2 is started with *)
(* the tip 0.5 mm below the upper soft limit or 2 mm above the lower one   *)
(* and left alone; the sensor publishes any reading.                        *)

LimitHeights == {Z_MIN + 500, Z_MAX - 2000}

InitLimits ==
    \/ \E pos \in LimitHeights : IsWorld(EtchStart(1, pos, GParamsDefault))
    \/ \E pos \in LimitHeights :
           IsWorld(EtchStart(2, pos, [GParamsDefault EXCEPT
                                         !.mod2.etchingThreshold_A = ThresholdHigh,
                                         !.mod2.pulseCount = 1]))

NextLimits ==
    \/ StartLoop(EtchLoopMs, {AdcNone, AdcSelect})
    \/ Mod1Loop(EtchLoopMs, {AdcNone}, IrmsSet)
    \/ Mod2Loop(EtchLoopMs, {AdcNone}, IrmsSet)

SpecLimits == InitLimits /\ [][NextLimits]_vars

-----------------------------------------------------------------------------
(* Specification of one move left to itself: the driver idle at a start     *)
(* position, one moveToMm or moveRelativeMm, and update() called at a steady *)
(* pace on the wrapping clock for ever after: the main loop calls update()  *)
(* once per pass, which is the fairness condition.                          *)

\* us between two update() calls: the clock comes round after 64 calls
PaceUs == MicrosWrap \div 64

\* um/s: zero, negative, 0.001 mm/s, above the maximum
AskedSpeeds == {0, -HOME_SPEED, 1, 2 * MAX_MM_S}

\* um
AskedDistances == {1000, -2000}

MoveObsInit ==
    [op |-> "none",      \* the last call: "none", "move", "update"
     moved |-> FALSE,    \* the motion command has been given
     from |-> 0,         \* pos_steps_ when it was given
     asked |-> 0,        \* the speed it asked for
     n |-> 0]            \* update() calls since, counted to 3

InitMove ==
    /\ \E pos \in StartSteps :
           stepper = [StepperInit EXCEPT !.pos_steps_ = pos, !.en = TRUE]
    /\ micros \in {0, MicrosWrap - PaceUs}
    /\ obs = MoveObsInit
    /\ OthersPoweredUp

\* the one motion command
MoveCommand(s, v) ==
    /\ ~obs.moved
    /\ stepper' = s
    /\ obs' = [obs EXCEPT !.op = "move", !.moved = TRUE,
                          !.from = stepper.pos_steps_, !.asked = v]
    /\ UNCHANGED <<micros, sensor, baselineCurrent, pins, Iavg, IavgS, gParams,
                   keys, ctrl, home, mod1, mod2, jog, param, twin>>

\* update(), PaceUs after the last call
MoveUpdate ==
    /\ micros' = (micros + PaceUs) % MicrosWrap
    /\ stepper' = StepperDriver_updateAt(stepper, micros')
    /\ obs' = [obs EXCEPT !.op = "update",
                          !.n = IF obs.moved THEN Min(@ + 1, 3) ELSE @]
    /\ UNCHANGED <<sensor, baselineCurrent, pins, Iavg, IavgS, gParams, keys,
                   ctrl, home, mod1, mod2, jog, param, twin>>

NextMove ==
    \/ \E x \in MoveTargets, v \in AskedSpeeds :
           MoveCommand(moveToMm(stepper, x, 1, v), v)
    \/ \E dx \in AskedDistances, v \in AskedSpeeds :
           MoveCommand(moveRelativeMm(stepper, dx, v), v)
    \/ MoveUpdate

SpecMove == InitMove /\ [][NextMove]_vars /\ WF_vars(MoveUpdate)

-----------------------------------------------------------------------------
(* Specification of one MovingAverage<NLong, 1000>: the constructor, then   *)
(* reset(x) and update(x) in any order, with samples that round to 0, round *)
(* up, round away from zero below it, and leave the int16_t range.          *)

\* mA as <<n, d>>: 0, 0.4, 0.5, -1.5, 100, 40 A, -40 A
FilterInputs ==
    {<<0, 1>>, <<2, 5>>, <<1, 2>>, <<-3, 2>>, <<100, 1>>, <<40000, 1>>, <<-40000, 1>>}

FilterObsInit ==
    [op |-> "new",        \* the last call: "new", "reset", "update"
     n |-> 0,             \* calls made
     k |-> 0,             \* update() calls since the last reset
     x0 |-> <<0, 1>>,     \* the argument of the last reset
     ins |-> <<>>,        \* the arguments of the update() calls since, oldest first
     ret |-> <<0, 1>>]    \* what the last update() returned

InitFilter ==
    /\ Iavg = MovingAverage_reset(NLong)
    /\ obs = FilterObsInit
    /\ micros = 0
    /\ stepper = PowerUp.stepper /\ sensor = PowerUp.sensor
    /\ baselineCurrent = PowerUp.baselineCurrent
    /\ pins = PowerUp.pins /\ IavgS = PowerUp.IavgS
    /\ gParams = PowerUp.gParams /\ keys = PowerUp.keys /\ ctrl = PowerUp.ctrl
    /\ home = PowerUp.home /\ mod1 = PowerUp.mod1 /\ mod2 = PowerUp.mod2
    /\ jog = PowerUp.jog /\ param = PowerUp.param /\ twin = NoTwin

FilterReset(x) ==
    /\ obs.n < MaxFilterCalls
    /\ Iavg' = MovingAverage_resetTo(NLong, x)
    /\ obs' = [obs EXCEPT !.op = "reset", !.n = @ + 1, !.k = 0, !.x0 = x,
                          !.ins = <<>>, !.ret = <<0, 1>>]
    /\ UNCHANGED <<stepper, sensor, baselineCurrent, pins, IavgS, gParams, keys,
                   ctrl, home, mod1, mod2, jog, param, micros, twin>>

FilterUpdate(x) ==
    /\ obs.n < MaxFilterCalls
    /\ Iavg' = MovingAverage_update(Iavg, NLong, x)
    /\ obs' = [obs EXCEPT !.op = "update", !.n = @ + 1, !.k = @ + 1,
                          !.ins = Append(@, x),
                          !.ret = MovingAverage_value(Iavg', NLong)]
    /\ UNCHANGED <<stepper, sensor, baselineCurrent, pins, IavgS, gParams, keys,
                   ctrl, home, mod1, mod2, jog, param, micros, twin>>

NextFilter ==
    \/ \E x \in FilterInputs : FilterReset(x)
    \/ \E x \in FilterInputs : FilterUpdate(x)

SpecFilter == InitFilter /\ [][NextFilter]_vars

-----------------------------------------------------------------------------
(* Properties *)

\* the call that ended this pass of loop() was step() of the named mode, or
\* step() followed by the end() the supervisor adds when step() returns true
SteppedMode(name) ==
    /\ Len(obs.calls) >= 1
    /\ obs.calls[1] = <<name, "step">>

\* C10: HomeMode::step() returns true only after, in this order, the limit
\* switch read LOW, the motor was stopped with the position set to 0, the
\* position reached 30 mm and motion was stopped, sensing was enabled and
\* lastIrms() accumulated for at least 5000 ms, baselineCurrent was set to the
\* mean of what was accumulated, and sensing was disabled.
C10_HomeOrder ==
    (SteppedMode("HOME") /\ obs.ret) =>
        /\ home.hist.order = <<"limit", "arrived", "baseline">>
        /\ home.hist.zeroed
        /\ home.hist.arrived
        /\ home.hist.measMs >= 5000
        /\ home.hist.acc[2] > 0
        /\ baselineCurrent[1] * home.hist.acc[2] = home.hist.acc[1] * baselineCurrent[2]
        /\ ~sensor.enabled_

\* a HOME run that completed after measuring a nonzero idle current
C10_Witness ==
    /\ SteppedMode("HOME") /\ obs.ret
    /\ obs.br = "HomeDone"
    /\ baselineCurrent[1] > 0
    /\ ctrl.ui_ = "MENU"

\* the etching mode whose step() this pass of loop() called, and its fields
EtchStepped == SteppedMode("MOD1") \/ SteppedMode("MOD2")
Running == IF ctrl.running_ = 1 THEN mod1 ELSE mod2

\* a pass of loop() is about to call step() of etching mode i in state st
About(i, st) ==
    /\ ctrl.ui_ = "RUNNING" /\ ctrl.running_ = i
    /\ (IF i = 1 THEN mod1 ELSE mod2).st_ = st

C2_HoldGuard ==
    [][(/\ About(2, "RelayHold")
        /\ SteppedMode("MOD2")'
        /\ ~OutOfRange(stepper')
        /\ mod2'.etchStart_ >= 2000)
       => ((obs'.after.st = "Wait3" /\ obs'.after.relays = <<"HIGH", "HIGH">>)
              <=> QLeq(MovingAverage_value(Iavg', NLong),
                       gParams.mod2.etchingThreshold_A))]_vars

\* the hold has lasted 2000 ms with the averaged current at or below the
\* default threshold, and MOD2 is still in RelayHold
C2_Witness ==
    /\ SteppedMode("MOD2") /\ obs.br = "HoldOn"
    /\ gParams.mod2.etchingThreshold_A = I_THRESHOLD
    /\ QLeq(MovingAverage_value(Iavg, NLong), I_THRESHOLD)

\* C5: every ON phase of the pulse train lasts at least pulseOn_s seconds and
\* every OFF phase at least pulseOff_s seconds (500 ms and 2000 ms by default).
C5_PulseDurations ==
    /\ gParams.mod2.pulseOn_s = 500 /\ gParams.mod2.pulseOff_s = 2000
    /\ obs.phase = "ON" => obs.phaseMs >= gParams.mod2.pulseOn_s
    /\ obs.phase = "OFF" => obs.phaseMs >= gParams.mod2.pulseOff_s

\* an ON phase has just ended
C5_Witness == obs.phase = "ON" /\ obs.br = "PulseOff"

\* C8: when validation times out (the short average did not reach 0.5 A and
\* now - validateStart_ >= 500 ms), the relays are switched off, the downward
\* search is commanded again, the state is MovingDownDetect and step()
\* returns false; this can repeat.
C8_ValidateTimeout ==
    [][\A i \in {1, 2} :
        (/\ About(i, "Validate30V")
         /\ SteppedMode(ModeName(i))'
         /\ ~OutOfRange(stepper')
         /\ Running'.validateStart_ >= VALIDATE_MS
         /\ ~QGeq(MovingAverage_value(IavgS', NShort), CONFIRM_I))
        => (/\ ~obs'.ret
            /\ obs'.after.relays = <<"HIGH", "HIGH">>
            /\ obs'.after.speed = 3000 /\ obs'.after.motion = "Velocity"
            /\ obs'.after.st = "MovingDownDetect")]_vars

\* a second false surface in one run
C8_Witness ==
    /\ SteppedMode("MOD2") /\ obs.br = "FalseSurface"
    /\ mod2.hist.recoveries >= 2
    /\ obs.after.st = "MovingDownDetect"

\* C9, the order: MOD1 is in Etching only after detection, plunge, successful
\* validation and a 2 s RelayHold, in this order; at most one final lift is
\* commanded; step() returns true only with Done, and only once the lift is
\* no longer busy or on a soft-limit abort
C9_Order ==
    /\ mod1.st_ = "Etching" =>
           /\ mod1.hist.order = <<"detect", "plunge", "valid", "hold">>
           /\ mod1.hist.holdMs >= 2000
    /\ mod1.hist.lifts <= 1
    /\ (SteppedMode("MOD1") /\ obs.ret) =>
           /\ obs.after.st = "Done"
           /\ \/ OutOfRange(stepper)
              \/ /\ mod1.hist.lifts = 1
                 /\ obs.after.motion # "ToTarget"
                 /\ mod1.hist.order = <<"detect", "plunge", "valid", "hold">>

\* C9, the end of etching: when the long average is below the etching
\* threshold during Etching, the relays are switched off and the final lift
\* (30 mm up at 3 mm/s) is commanded, for the first time in the run
C9_EtchEnd ==
    (/\ About(1, "Etching")
     /\ SteppedMode("MOD1")'
     /\ ~OutOfRange(stepper')
     /\ QLt(MovingAverage_value(Iavg', NLong), gParams.mod1.etchingThreshold_A))
    => (/\ ~obs'.ret
        /\ obs'.after.relays = <<"HIGH", "HIGH">>
        /\ obs'.after.st = "FinalLift"
        /\ obs'.after.motion = "ToTarget"
        /\ obs'.after.speed = -3000
        /\ obs'.after.target = stepper'.pos_steps_ - 30 * StepsPerMm
        /\ mod1.hist.lifts = 0 /\ mod1'.hist.lifts = 1)

\* C9: MOD1 enters Etching only after detection, plunge, successful validation
\* and the 2 s RelayHold, in order; when the long average falls below
\* etchingThreshold_A during Etching, motion is stopped, the relays are
\* switched off and the final lift is issued exactly once; step() returns true
\* with Done only once the lift is not busy, or on the soft-limit abort.
C9_Mod1Etching == []C9_Order /\ [][C9_EtchEnd]_vars

\* a MOD1 run that etched, lifted and completed
C9_Witness ==
    /\ SteppedMode("MOD1") /\ obs.ret /\ obs.br = "LiftDone"
    /\ mod1.hist.lifts = 1
    /\ ~OutOfRange(stepper)

\* the pulses asked for
PulsesAsked == gParams.mod2.pulseCount

\* C3: for every pulse count n >= 1, a MOD2 run that reaches the pulse train
\* and is neither aborted nor cancelled switches the 9 V output on exactly n
\* times, each followed by a switch off, then issues the final lift exactly
\* once, and ends with both relays HIGH.
C3_PulseTrain ==
    (PulsesAsked >= 1 /\ mod2.hist.ons >= 1) =>
        /\ mod2.hist.ons <= PulsesAsked
        /\ mod2.hist.offs <= mod2.hist.ons /\ mod2.hist.ons <= mod2.hist.offs + 1
        /\ mod2.hist.lifts <= 1
        /\ mod2.hist.lifts = 1 =>
               mod2.hist.ons = PulsesAsked /\ mod2.hist.offs = PulsesAsked
        /\ (SteppedMode("MOD2") /\ obs.ret /\ ~OutOfRange(stepper)) =>
               /\ mod2.hist.lifts = 1
               /\ obs.after.relays = <<"HIGH", "HIGH">>

\* a run of two pulses that completed
C3_Witness ==
    /\ SteppedMode("MOD2") /\ obs.ret /\ ~OutOfRange(stepper)
    /\ PulsesAsked = 2 /\ mod2.hist.ons = 2 /\ mod2.hist.offs = 2

\* C4: for every pulse count the editor can store and any durations, once
\* MOD2 is in RelayPulse and loop() keeps being called, the count is
\* eventually exhausted and the machine reaches FinalLift and then Done.
C4_PulsesExhaust ==
    (ctrl.ui_ = "RUNNING" /\ mod2.st_ = "RelayPulse") ~> (mod2.st_ = "Done")

\* the pulse counter has wrapped to 0 with the train still running
C4_Witness ==
    /\ ctrl.ui_ = "RUNNING" /\ mod2.st_ = "RelayPulse"
    /\ mod2.hist.offs >= PULSE_WRAP
    /\ mod2.pulseCount_ = 0

-----------------------------------------------------------------------------
(* Stopping a mode, and the relay pair *)

\* this loop() stopped the named mode: stop_() called its end()
Ended(name) ==
    obs.stopped /\ \E i \in 1..Len(obs.calls) : obs.calls[i] = <<name, "end">>

\* C6: whichever mode stop_() has ended (HOME, MOD1, MOD2, JOG or PARAM,
\* stopped by SELECT or by step() returning true), after its end() the
\* stepper's commanded speed is 0, its motion mode is Idle and the relay pins
\* drive (HIGH, HIGH).
C6_EndSafe ==
    obs.stopped =>
        /\ stepper.speed_mm_s_ = 0
        /\ stepper.motion_ = "Idle"
        /\ Driven(pins) = <<"HIGH", "HIGH">>

\* HOME was cancelled with SELECT while it was still moving
C6_Witness ==
    /\ Ended("HOME")
    /\ ~obs.ret
    /\ stepper.speed_mm_s_ # 0

\* the pairs (relay1, relay2) that select off, 30 V and 9 V
RelayPairs == {<<"HIGH", "HIGH">>, <<"HIGH", "LOW">>, <<"LOW", "HIGH">>}

\* C7: in every loop() the relay pins never drive (LOW, LOW), not even
\* between the calls that change one pin inside begin(), step() or end() of
\* MOD1 and MOD2, and once both pins are outputs the pair left behind is one
\* of off, 30 V and 9 V.
C7_RelayPairs ==
    /\ <<"LOW", "LOW">> \notin obs.seen
    /\ pins.out = <<TRUE, TRUE>> => Driven(pins) \in RelayPairs

\* MOD1 or MOD2 began in this loop() and the pins drove (LOW, LOW) in it
C7_Witness ==
    /\ \E i \in 1..Len(obs.calls) :
          obs.calls[i] \in {<<"MOD1", "begin">>, <<"MOD2", "begin">>}
    /\ <<"LOW", "LOW">> \in obs.seen

-----------------------------------------------------------------------------
(* The baseline, the supervisor's calls, and sleeping *)

\* C11, in every state: the HOME run in progress or last ended has assigned
\* baselineCurrent once if its measurement ended and not at all otherwise, and
\* a run that ran to completion has assigned it exactly once.
C11_Once ==
    /\ home.hist.writes = IF home.baselineDone_ THEN 1 ELSE 0
    /\ (SteppedMode("HOME") /\ obs.ret) => home.hist.writes = 1

\* C11, in every pass of loop(): baselineCurrent is assigned (its value
\* changes or the run's count of assignments grows) only by HomeMode::step()
\* in the pass that ends the measurement.
C11_Frame ==
    (baselineCurrent' # baselineCurrent \/ home'.hist.writes > home.hist.writes)
        => /\ obs'.calls[1] = <<"HOME", "step">>
           /\ obs'.br = "HomeBaseline"
           /\ home.baselineMeasuring_ /\ ~home'.baselineMeasuring_

\* C11: baselineCurrent is assigned only by HomeMode at the end of its
\* baseline measurement: exactly once in a HOME run that completes, not at
\* all in one cancelled earlier, and never by MOD1, MOD2, JOG, PARAM or the
\* sensor.
C11_BaselineWrites == []C11_Once /\ [][C11_Frame]_vars

\* a HOME run completed with a baseline other than 0
C11_Witness ==
    /\ SteppedMode("HOME") /\ obs.ret
    /\ home.hist.writes = 1
    /\ baselineCurrent[1] > 0

\* C12, one pass of loop(): in MENU no step() runs and at most one begin()
\* is called, of the mode that is running afterwards; in RUNNING exactly one
\* step() is called, of the mode begun last and not ended, followed by at
\* most one end() of the same mode, after which the menu shows.
C12_Pass ==
    LET c == obs'.calls
        r == ModeName(ctrl.running_)
    IN  IF ctrl.ui_ = "MENU"
        THEN \/ c = <<>> /\ ctrl'.ui_ = "MENU"
             \/ /\ c = << <<ModeName(ctrl'.running_), "begin">> >>
                /\ ctrl'.ui_ = "RUNNING"
        ELSE \/ c = << <<r, "step">> >>
                /\ ctrl'.ui_ = "RUNNING" /\ ctrl'.running_ = ctrl.running_
             \/ c = << <<r, "step">>, <<r, "end">> >> /\ ctrl'.ui_ = "MENU"

\* C12: the supervisor calls step() only on the one mode begun last and not
\* ended since, begin() and end() alternate (one end() also when SELECT is
\* pressed in the pass in which step() returns true), at most one step() runs
\* per loop() and none in MENU.
C12_OneMode == [][C12_Pass]_vars

\* SELECT was pressed in the pass in which HomeMode::step() returned true,
\* and HOME was ended once
C12_Witness ==
    /\ obs.key = "SELECT" /\ obs.ret /\ obs.stopped
    /\ obs.calls = << <<"HOME", "step">>, <<"HOME", "end">> >>

\* C13: no step() of HOME, MOD1 or MOD2 spends time in a sleep: between two
\* mode steps only the time between two passes of loop() goes by.
C13_NoSleep == obs.slept = 0

\* HomeMode::step() slept before it reported completion
C13_Witness ==
    /\ SteppedMode("HOME") /\ obs.ret
    /\ obs.slept = HOME_EXIT

-----------------------------------------------------------------------------
(* The stepper's timing *)

C14_Update ==
    (isBusy(stepper) /\ obs'.op = "update") =>
        LET reached == IF stepper.dir_
                       THEN stepper'.pos_steps_ >= stepper.target_steps_
                       ELSE stepper'.pos_steps_ <= stepper.target_steps_
        IN  /\ stepper'.target_steps_ = stepper.target_steps_
            /\ stepper'.motion_ \in {"ToTarget", "Idle"}
            /\ isBusy(stepper') <=> ~(obs'.pulse /\ reached)
            /\ ~isBusy(stepper') =>
                   /\ stepper'.speed_mm_s_ = 0
                   /\ Abs(stepper'.pos_steps_ - stepper'.target_steps_) <= 1

\* C14: after moveToMm(target, v) the driver stays busy through every
\* update() until a pulse brings the step counter to or past the target in
\* the direction of travel; with that pulse it goes Idle with speed 0 by
\* itself, and the position is then within one step of the target.
C14_MoveArrives == [][C14_Update]_vars

\* a move has ended by itself, on its target
C14_Witness ==
    /\ obs.op = "update" /\ obs.pulse /\ obs.cmds = 1 /\ obs.n >= 2
    /\ stepper.motion_ = "Idle" /\ stepper.speed_mm_s_ = 0
    /\ stepper.pos_steps_ = stepper.target_steps_
    /\ stepper.pos_steps_ > 0

C15_Still ==
    (obs.halted /\ obs'.op = "update") =>
        /\ ~obs'.pulse
        /\ stepper'.pos_steps_ = stepper.pos_steps_

\* C15: after setSpeedMmPerSec(0), given in velocity motion or in the middle
\* of a move to a target, isBusy() is false from that call on and no later
\* update() emits a pulse or changes the position until the next command.
C15_ZeroSpeedStops ==
    /\ [](obs.halted => (~isBusy(stepper) /\ stepper.speed_mm_s_ = 0))
    /\ [][C15_Still]_vars

\* update() has run after a move was cut short by setSpeedMmPerSec(0)
C15_Witness ==
    /\ obs.halted /\ obs.midMove /\ obs.op = "update"
    /\ stepper.pos_steps_ # stepper.target_steps_

\* C16: when update() emits a pulse that was due at d, the next pulse is due
\* at d plus one period, however late the call came.
C16_DueAdvances ==
    (obs.op = "update" /\ obs.pulse) =>
        stepper.tNextStep_ =
            (((micros + MicrosWrap - obs.late) % MicrosWrap) + obs.per) % MicrosWrap

\* update() emitted a pulse after it was due
C16_Witness == obs.op = "update" /\ obs.pulse /\ obs.late > 0 /\ obs.gap = 0

\* the first update() after a start from idle or a move emits a pulse
C17_FirstPulse == (obs.op = "update" /\ obs.first) => obs.pulse

\* C17: after a start from idle (at one step a second or more) or a move the
\* very next update() emits a pulse, whatever tNextStep_ held and whatever
\* the counter reads, and a later pulse of the same motion never comes
\* sooner than one period after the pulse before it.
C17_StartAndSpacing == C17_FirstPulse /\ ~obs.early

\* a pulse came sooner than one period after the pulse before it, the
\* counter being short of its wrap
C17_Witness ==
    /\ obs.op = "update" /\ obs.early
    /\ micros > MicrosWrap - 3 * TickUs

-----------------------------------------------------------------------------
(* The current sensor's timing *)

\* an enabled update() samples exactly when the scheduled time has been
\* reached and closes the window exactly when a full window has gone by
SensorOnTime ==
    (obs.op = "update" /\ sensor.enabled_) =>
        /\ obs.sampled <=> obs.sampleDue
        /\ obs.closed <=> obs.windowDue

\* ... as long as the sensor was never disabled for half the counter's range
C18_ShortPauses == ~obs.waited => SensorOnTime

\* C18: with the counter wrapping, update() takes a sample exactly when the
\* scheduled sample time has really been reached and closes the window
\* exactly when a full window has really gone by, also after the sensor was
\* disabled for any length of time and enabled again.
C18_WrapSafe == SensorOnTime

\* the first update() after a long time disabled: the sample was due and
\* a window had gone by, no sample was taken and no window closed
C18_Witness ==
    /\ obs.op = "update" /\ sensor.enabled_ /\ obs.waited
    /\ obs.sampleDue /\ ~obs.sampled
    /\ obs.windowDue /\ ~obs.closed

C19_Frame == (~sensor.enabled_ /\ obs'.op = "update") => sensor' = sensor

\* C19: while the sensor is disabled, update() changes nothing: Irms_, Vpp_,
\* adcMin_, adcMax_, sumV_, sumV2_, nSamples_, nextSampleTime_ and
\* windowStart_ keep their values.
C19_DisabledFrozen == [][C19_Frame]_vars

\* update() ran on a disabled sensor in the middle of a window, with a
\* sample due
C19_Witness ==
    /\ obs.op = "update" /\ ~sensor.enabled_
    /\ sensor.nSamples_ > 0 /\ obs.sampleDue /\ ~obs.sampled

C20_Close ==
    (obs'.op = "update" /\ obs'.empty) =>
        /\ sensor'.Irms_ = sensor.Irms_
        /\ sensor'.windowStart_ =
               (sensor.windowStart_ + sensor.sampleWindow_us_) % MicrosWrap
        /\ sensor'.adcMin_ = ADC_MAX /\ sensor'.adcMax_ = 0
        /\ sensor'.sumV_ = 0 /\ sensor'.sumV2_ = 0 /\ sensor'.nSamples_ = 0

\* C20: a window that closes with nSamples_ = 0 leaves lastIrms() as it was
\* and resets the window's accumulators as every close does.
C20_EmptyWindowKeeps == [][C20_Close]_vars

\* a window without a sample has closed and a reading above zero is still
\* published
C20_Witness == obs.op = "update" /\ obs.empty /\ lastIrms(sensor) > 0

-----------------------------------------------------------------------------
(* The corrected reading and the filters *)

\* C21: correctedIrms() is never negative, whatever Irms_ and
\* baselineCurrent hold (also with the baseline above the reading), and so
\* is every reading the etching machines have put into their filters.
C21_NonNegative ==
    /\ correctedIrms(sensor, baselineCurrent)[1] >= 0
    /\ correctedIrms(sensor, baselineCurrent)[2] > 0
    /\ \A i \in 0..(NShort - 1) : IavgS.buf_[i] >= 0
    /\ \A i \in 0..(NLong - 1) : Iavg.buf_[i] >= 0

\* an etching machine has searched with a reading below the baseline
C21_Witness ==
    /\ EtchStepped /\ obs.br = "Search"
    /\ baselineCurrent[1] > lastIrms(sensor) * baselineCurrent[2]

\* a sample as the filter stores it: times SCALE, clamped to int16_t, rounded
\* to nearest with halves away from zero
Stored(x) ==
    IF x[1] > FIX_MAX * x[2] THEN FIX_MAX
    ELSE IF x[1] < -FIX_MIN_NEG * x[2] THEN -FIX_MIN_NEG
    ELSE IF x[1] >= 0 THEN (2 * x[1] + x[2]) \div (2 * x[2])
    ELSE -((2 * (-x[1]) + x[2]) \div (2 * x[2]))

\* the sum of the stored values of the last m samples of a sequence
RECURSIVE SumLast(_, _)
SumLast(q, m) ==
    IF m = 0 \/ q = <<>> THEN 0
    ELSE Stored(q[Len(q)]) + SumLast(SubSeq(q, 1, Len(q) - 1), m - 1)

\* C22: the value update() returns is the mean of the stored values of the
\* last min(N, k) samples inserted, k the number of update() calls since the
\* last reset.
C22_MeanOfInserted ==
    obs.op = "update" =>
        LET m == Min(NLong, obs.k)
        IN  obs.ret[1] * m = SumLast(obs.ins, m) * obs.ret[2]

\* C22 amended: after reset(x0) with a stored x0 of 0 the value update()
\* returns is that mean; after reset(x0) with a stored x0 other than 0 it is
\* the mean over all N slots, those not yet overwritten holding x0.
C22_MeanOfWindow ==
    obs.op = "update" =>
        LET m  == Min(NLong, obs.k)
            x0 == Stored(obs.x0)
        IN  IF x0 = 0
            THEN obs.ret[1] * m = SumLast(obs.ins, m) * obs.ret[2]
            ELSE obs.ret[1] * NLong
                     = (SumLast(obs.ins, m) + (NLong - m) * x0) * obs.ret[2]

\* the first update() after a reset to a value other than 0, with a sample
\* that differs from it
C22_Witness ==
    /\ obs.op = "update" /\ obs.k = 1
    /\ Stored(obs.x0) # 0 /\ Stored(obs.ins[1]) # Stored(obs.x0)

\* C23: after reset(0), filled() is false until exactly N update() calls
\* have been made and true from then on, and update(0) returns 0; after
\* reset(x) with any x other than 0, filled() is true at once.
C23_Filled ==
    IF obs.x0[1] = 0
    THEN /\ filled(Iavg) <=> obs.k >= NLong
         /\ (obs.op = "update" /\ \A i \in 1..Len(obs.ins) : obs.ins[i][1] = 0)
                => obs.ret[1] = 0
    ELSE filled(Iavg)

\* reset(x) was called with an x other than 0 and filled() is false
C23_Witness == obs.op = "reset" /\ obs.x0[1] # 0 /\ ~filled(Iavg)

\* this pass of loop() began a run of the named mode
Began(name) == obs.calls = << <<name, "begin">> >>

\* C24: on entry to a run of MOD1 or MOD2 both filters are as reset() leaves
\* them: neither holds a sample inserted during an earlier run.
C24_FiltersReset ==
    (Began("MOD1") \/ Began("MOD2")) =>
        /\ Iavg = MovingAverage_reset(NLong)
        /\ IavgS = MovingAverage_reset(NShort)

\* a second run has begun, of MOD2, with a reading of the run before in the
\* short-window filter
C24_Witness ==
    /\ Began("MOD2") /\ obs.runs = 2
    /\ IavgS.sum_ > 0

-----------------------------------------------------------------------------
(* JOG and the parameter editor *)

\* C25: JogMode::step() does not return true on the SELECT press that
\* started JOG from the menu, however long the key stays held after entry.
C25_HeldSelectIgnored == (SteppedMode("JOG") /\ obs.ret) => ~jog.held

\* JogMode::step() returned true with SELECT held since the menu
C25_Witness == SteppedMode("JOG") /\ obs.ret /\ jog.held /\ ~jog.firstStep_

-----------------------------------------------------------------------------
(* The RMS current of a window *)

RECURSIVE SumOf(_)
SumOf(q) == IF q = <<>> THEN 0 ELSE Head(q) + SumOf(Tail(q))

Squares(q) == [i \in 1..Len(q) |-> q[i] * q[i]]
Shifted(q, off) == [i \in 1..Len(q) |-> q[i] + off]

\* k_cal * sqrt(max(0, mean(v^2) - mean(v)^2)) for the readings q, mA
RmsOf(q) ==
    LET n == Len(q)
        d == n * SumOf(Squares(q)) - SumOf(q) * SumOf(q)
    IN  (K_CAL * VREF_V * Isqrt(IF d < 0 THEN 0 ELSE d)) \div (ADC_MAX * n)

\* the sensor c at counter value now after update() once per interval with
\* the readings q
RECURSIVE Fed(_, _, _)
Fed(c, now, q) ==
    IF q = <<>> THEN c
    ELSE LET t == (now + SAMPLE_INTERVAL) % MicrosWrap
         IN  Fed(CurrentSensor_updateAt(c, t, Head(q)), t, Tail(q))

WindowOffsets == {-100, 23, 123}

\* q goes back and forth between two different readings
Alternates(q) ==
    /\ Len(q) >= 2
    /\ \A i \in 1..(Len(q) - 1) : q[i] # q[i + 1]
    /\ \A i \in 1..(Len(q) - 2) : q[i] = q[i + 2]

\* 8 * i^2 = (k_cal * Vpp)^2 up to RmsTol, i and k_cal * Vpp in mA
SquareWaveRms(i, vpp) ==
    LET c  == (K_CAL * vpp) \div 1000
        lo == IF i > RmsTol THEN i - RmsTol ELSE 0
    IN  8 * lo * lo <= c * c /\ c * c <= 8 * (i + RmsTol) * (i + RmsTol)

\* a window close publishes the formula's value over the window's readings,
\* and the same value for the readings shifted by any offset
C27_Formula ==
    (obs.op = "update" /\ obs.closed) =>
        /\ lastIrms(sensor) = RmsOf(obs.codes)
        /\ \A off \in WindowOffsets :
               lastIrms(Fed(obs.open[1], obs.open[2], Shifted(obs.codes, off)))
                   = lastIrms(sensor)

\* C27: the Irms published at a window close is
\* k_cal * sqrt(max(0, mean(v^2) - mean(v)^2)) over the readings of the
\* window, is the same when an offset is added to every reading, and for
\* readings that alternate between two codes is
\* k_cal * (peak-to-peak voltage) / (2 * sqrt(2)).
C27_WindowRms ==
    /\ C27_Formula
    /\ (obs.op = "update" /\ obs.closed /\ Alternates(obs.codes)) =>
           SquareWaveRms(lastIrms(sensor), sensor.Vpp_)

\* a window of readings that alternate between two codes has closed and
\* has published a new current
C27_Witness ==
    /\ obs.op = "update" /\ obs.closed /\ Alternates(obs.codes)
    /\ Len(obs.codes) = WindowLen
    /\ lastIrms(sensor) = RmsOf(obs.codes) /\ lastIrms(sensor) # obs.before

-----------------------------------------------------------------------------
(* MOD1 and MOD2 side by side *)

\* both controllers have stepped their machine in the last loop() and
\* neither has met a soft limit
BothStepped ==
    /\ twin # NoTwin
    /\ SteppedMode("MOD1") /\ obs.br # "Abort"
    /\ Len(twin.obs.calls) >= 1 /\ twin.obs.calls[1] = <<"MOD2", "step">>
    /\ twin.obs.br # "Abort"

\* C28: fed the same readings and clock values from begin(), the MOD1 and
\* the MOD2 machine take the same branch in every step() of the surface
\* search and the validation, and so are in the same state after it.
C28_SameDecisions ==
    (BothStepped /\ (mod1.st_ \in SearchStates \/ twin.mod2.st_ \in SearchStates)) =>
        (obs.br = twin.obs.br /\ mod1.st_ = twin.mod2.st_)

\* two validations that began on the same tick confirm or reject on the
\* same tick
C28_SameValidation ==
    (BothStepped /\ mod1.validateStart_ = twin.mod2.validateStart_
        /\ obs.br \in {"Validate", "Confirmed", "FalseSurface"}
        /\ twin.obs.br \in {"Validate", "Confirmed", "FalseSurface"}) =>
        obs.br = twin.obs.br

\* the MOD2 machine has left the search on a reading that keeps the MOD1
\* machine searching
C28_Witness ==
    /\ BothStepped
    /\ obs.br = "Search" /\ mod1.st_ = "MovingDownDetect"
    /\ twin.obs.br = "Detect" /\ twin.mod2.st_ = "Wait1"

-----------------------------------------------------------------------------
(* The validation time *)

\* a step() that found the machine in Validate30V has left it there only
\* with less than 500 ms gone since validateStart_
C29_NeverBeyond ==
    (EtchStepped /\ obs.br = "Validate") =>
        (Running.st_ = "Validate30V" /\ Running.validateStart_ < VALIDATE_MS)

\* C29: in MOD1 and in MOD2 a step() confirms the contact (Validate30V to
\* RelayHold) only with now - validateStart_ < 500 ms, and a step() with
\* now - validateStart_ >= 500 ms that does not confirm goes back to
\* MovingDownDetect.
C29_ConfirmInTime ==
    /\ (EtchStepped /\ obs.br = "Confirmed") =>
           Running.validateStart_ < VALIDATE_MS
    /\ C29_NeverBeyond

\* a contact confirmed 500 ms or more after the validation began
C29_Witness ==
    /\ EtchStepped /\ obs.br = "Confirmed" /\ Running.st_ = "RelayHold"
    /\ Running.validateStart_ >= VALIDATE_MS

-----------------------------------------------------------------------------
(* The pulse train and the sensor *)

PulseStates == {"RelayPulse", "FinalLift", "Done"}

\* what a step() of MOD2 decides in world w
Decided(w) ==
    LET a == Mod2Mode_step(w)
    IN  <<a.mod2, a.stepper, a.pins, a.Iavg, a.IavgS, a.obs.ret, a.obs.br>>

\* C30: while MOD2 runs in RelayPulse or FinalLift, and when its step() has
\* left it in one of these states or in Done, the sensor is disabled, and
\* what the next step() does is the same whatever current the sensor holds.
C30_NoSensing ==
    (/\ (ctrl.ui_ = "RUNNING" /\ ctrl.running_ = 2) \/ SteppedMode("MOD2")
     /\ mod2.st_ \in PulseStates) =>
        /\ ~sensor.enabled_
        /\ \A irms \in IrmsSet :
               Decided([World EXCEPT !.sensor.Irms_ = irms]) = Decided(World)

\* the pulse train has ended and the lift has begun, the sensor disabled
\* and holding a current it published before
C30_Witness ==
    /\ SteppedMode("MOD2") /\ obs.br = "PulsesDone" /\ mod2.st_ = "FinalLift"
    /\ ~sensor.enabled_ /\ lastIrms(sensor) = IrmsHigh

-----------------------------------------------------------------------------
(* The parameter editor *)

\* saving v at entry i of the MOD2 list changes only the named duration
SavesOnly(i, v, field, other) ==
    LET g == StoreFloat(gParams, 1, i, v)
    IN  g.mod2[field] = v /\ g.mod2[other] = gParams.mod2[other]

\* C26: the MOD2 pulse ON and pulse OFF durations can each be set through
\* the editor without changing the other: the MOD2 parameter list has an
\* entry whose save stores pulseOff_s and one whose save stores pulseOn_s.
C26_BothEditable ==
    /\ \E i \in 0..(paramCountForMode(1) - 1) :
           SavesOnly(i, gParams.mod2.pulseOff_s + 1, "pulseOff_s", "pulseOn_s")
    /\ \E i \in 0..(paramCountForMode(1) - 1) :
           SavesOnly(i, gParams.mod2.pulseOn_s + 1, "pulseOn_s", "pulseOff_s")

\* whatever keys are pressed in the editor, pulseOff_s keeps its value
C26_OffFixed == gParams.mod2.pulseOff_s = GParamsDefault.mod2.pulseOff_s

\* the editor has saved a new pulseOn_s; pulseOff_s is as it was
C26_Witness ==
    /\ SteppedMode("PARAM") /\ param.state_ = "SelectParam"
    /\ param.selectedMode_ = 1 /\ param.selectedParam_ = 4
    /\ gParams.mod2.pulseOn_s # GParamsDefault.mod2.pulseOn_s
    /\ gParams.mod2.pulseOff_s = GParamsDefault.mod2.pulseOff_s


-----------------------------------------------------------------------------
(* The position counter *)

\* the direction flag at the update() of this pass of loop(): JOG commands
\* the speed before it calls update(), the other modes call update() first
PulseDir == IF obs'.calls # <<>> /\ obs'.calls[1] = <<"JOG", "step">>
            THEN stepper'.dir_ ELSE stepper.dir_

C31_Change ==
    stepper'.pos_steps_ # stepper.pos_steps_ =>
        \/ /\ obs'.br = "HomeLimit" /\ obs'.calls[1] = <<"HOME", "step">>
           /\ stepper'.pos_steps_ = 0
        \/ /\ \E i \in 1..Len(obs'.calls) : obs'.calls[i][2] = "step"
           /\ stepper'.pos_steps_ =
                  stepper.pos_steps_ + (IF PulseDir THEN 1 ELSE -1)

-----------------------------------------------------------------------------
(* The relays in each state of the etching machines *)

Off30V == {"Wait1", "MoveDown1", "Wait2", "Wait3", "MoveDown2", "Wait4",
           "FinalLift", "Done"}

\* C32: when a step() of MOD1 or MOD2 returns, the relays select 30 V
\* (HIGH, LOW) exactly in Validate30V, RelayHold and, in MOD1, Etching; they
\* are both HIGH in every wait, plunge, final-lift and Done state; in MOD2
\* they select 9 V (LOW, HIGH) exactly in RelayPulse with relayOn_ true.
C32_RelaysByState ==
    EtchStepped =>
        LET st == obs.after.st
            r  == obs.after.relays
        IN  /\ (r = <<"HIGH", "LOW">>) <=>
                   (st \in {"Validate30V", "RelayHold"}
                    \/ (SteppedMode("MOD1") /\ st = "Etching"))
            /\ st \in Off30V => r = <<"HIGH", "HIGH">>
            /\ SteppedMode("MOD2") =>
                   ((r = <<"LOW", "HIGH">>) <=> (st = "RelayPulse" /\ mod2.relayOn_))

\* the second 9 V pulse of a MOD2 run has just been switched on
C32_Witness ==
    /\ SteppedMode("MOD2") /\ obs.br = "PulseOn"
    /\ obs.after.st = "RelayPulse" /\ mod2.relayOn_
    /\ obs.after.relays = <<"LOW", "HIGH">>


-----------------------------------------------------------------------------
(* The search configuration *)

\* a step() of the named mode has left the machine searching with these
\* relays and this speed
Searching(name, relays, speed) ==
    (SteppedMode(name) /\ obs.after.st = "MovingDownDetect") =>
        (obs.after.relays = relays /\ obs.after.speed = speed)

\* MOD2 searches with both relays HIGH at +3.0 mm/s, as begin() sets them
C33_Mod2AsBegun == Searching("MOD2", <<"HIGH", "HIGH">>, MOD_SEARCH)

\* C33: whenever MOD1 is in MovingDownDetect the relays and the speed are
\* those begin() sets (relay1 LOW, relay2 HIGH, +1.5 mm/s), and whenever
\* MOD2 is in MovingDownDetect they are those its begin() sets (both HIGH,
\* +3.0 mm/s), after a false-surface recovery as after begin().
C33_SearchAsBegun ==
    /\ Searching("MOD1", <<"LOW", "HIGH">>, MOD1_SEARCH)
    /\ C33_Mod2AsBegun

\* MOD1 searches again after a false surface, both relays HIGH, at 3.0 mm/s
C33_Witness ==
    /\ SteppedMode("MOD1") /\ obs.br = "FalseSurface"
    /\ obs.after.st = "MovingDownDetect"
    /\ obs.after.relays = <<"HIGH", "HIGH">> /\ obs.after.speed = MOD_SEARCH


-----------------------------------------------------------------------------
(* The soft limits *)

\* the position is less than one step outside [Z_MIN, Z_MAX]
WithinAStep(s) ==
    /\ s.pos_steps_ * 1000 > Z_MIN * StepsPerMm - 1000
    /\ s.pos_steps_ * 1000 < Z_MAX * StepsPerMm + 1000

-----------------------------------------------------------------------------
(* Homing before etching *)

\* a HOME run has found the limit switch, zeroed the position there and
\* measured the baseline current
HomeCompleted == home.homed_ /\ home.hist.zeroed /\ home.baselineDone_

\* C35: the supervisor calls begin() of MOD1 or MOD2 only after a HOME run
\* has run to completion since power-up.
C35_HomedBeforeEtch == (Began("MOD1") \/ Began("MOD2")) => HomeCompleted

\* an etching run begins although the limit switch was never found
C35_Witness == (Began("MOD1") \/ Began("MOD2")) /\ ~home.homed_


-----------------------------------------------------------------------------
(* Sensing in the menu *)

\* C36: whenever the supervisor shows the menu, current sensing is
\* disabled, however the mode that ran before has ended.
C36_MenuNoSensing == ctrl.ui_ = "MENU" => ~sensor.enabled_

\* the menu after HOME was cancelled during its baseline measurement: the
\* sensor is still enabled
C36_Witness ==
    /\ ctrl.ui_ = "MENU" /\ Ended("HOME") /\ home.baselineMeasuring_
    /\ sensor.enabled_


-----------------------------------------------------------------------------
(* The time between two window closes *)

\* the last update() closed a window and an earlier one had closed one
SecondClose == obs.op = "update" /\ obs.closed /\ obs.closes >= 2

\* C37: two successive window closes are at least sampleWindow_us apart,
\* also when the sensor was disabled for longer than a window and enabled
\* again between them or before them.
C37_FullWindows == SecondClose => obs.gap >= sensor.sampleWindow_us_

\* the controller's sensor, enabled after more than a window disabled, has
\* closed two windows less than a window apart
C37_Witness ==
    /\ sensor.sampleWindow_us_ = SAMPLE_WINDOW
    /\ SecondClose /\ obs.gap < SAMPLE_WINDOW
    /\ sensor.enabled_ /\ ~obs.off /\ obs.n = MaxSensorCalls


-----------------------------------------------------------------------------
(* Moves of no length *)

\* the last call was the first update() after a move to the position the
\* driver was at
AfterNilMove == obs.op = "update" /\ obs.first /\ obs.nil

\* C38: after moveToMm to the position the driver is at, or moveRelativeMm
\* by a distance that rounds to 0 steps, the next update() emits no pulse,
\* leaves pos_steps_ on the target and leaves the driver idle.
C38_NilMoveStill ==
    AfterNilMove =>
        /\ ~obs.pulse
        /\ stepper.pos_steps_ = stepper.target_steps_
        /\ ~isBusy(stepper)

\* the update() after such a move has emitted a pulse: the driver is idle
\* one step below the target
C38_Witness ==
    /\ AfterNilMove /\ obs.pulse /\ ~isBusy(stepper)
    /\ stepper.pos_steps_ = stepper.target_steps_ - 1


-----------------------------------------------------------------------------
(* Moves end *)

\* C39: after any moveToMm or moveRelativeMm, whatever the target and the
\* speed asked for (zero, negative, very small, above the maximum), isBusy()
\* becomes false when update() keeps being called and no other command comes.
C39_MoveEnds == [](obs.moved => <>(~isBusy(stepper)))

\* the moves asked for at any of the other speeds do end
C39_OthersEnd == []((obs.moved /\ obs.asked # 1) => <>(~isBusy(stepper)))

\* three update() calls after a move asked for at 0.001 mm/s the driver is
\* busy where it started, short of its target
C39_Witness ==
    /\ obs.moved /\ obs.n = 3 /\ obs.asked = 1
    /\ isBusy(stepper)
    /\ stepper.pos_steps_ = obs.from
    /\ stepper.pos_steps_ # stepper.target_steps_


-----------------------------------------------------------------------------
(* The accumulator *)

\* the N buffer entries, first to last
BufferOf(m, N) == [i \in 1..N |-> m.buf_[i - 1]]

\* C40: after any sequence of reset and update calls sum_ is the sum of the N
\* buffer entries, 0 <= idx_ < N, and every entry lies in [-32768, 32767]; so
\* |sum_| <= N * 32768, which a long holds.
C40_SumExact ==
    /\ Iavg.sum_ = SumOf(BufferOf(Iavg, NLong))
    /\ Iavg.idx_ >= 0 /\ Iavg.idx_ < NLong
    /\ \A i \in 0..(NLong - 1) :
           Iavg.buf_[i] >= -FIX_MIN_NEG /\ Iavg.buf_[i] <= FIX_MAX
    /\ Abs(Iavg.sum_) <= NLong * FIX_MIN_NEG
    /\ NLong * FIX_MIN_NEG <= 2147483647

\* update() has come round the buffer after a reset, and the buffer holds a
\* sample clamped at each end of the int16_t range
C40_Witness ==
    /\ obs.op = "update" /\ obs.n > obs.k /\ obs.k >= NLong
    /\ \E i \in 0..(NLong - 1) : Iavg.buf_[i] = FIX_MAX
    /\ \E i \in 0..(NLong - 1) : Iavg.buf_[i] = -FIX_MIN_NEG
    /\ Iavg.sum_ # 0

====
